---------------------------- MODULE Spec2Model ----------------------------
(***************************************************************************)
(* A model of pdf2preserve (src/app.py): the PDFFormatter pipeline that    *)
(* classifies spans, detects list markers and alignment, assembles the     *)
(* block stream page by page and renders it, the /batch-convert endpoint   *)
(* and the serverless handler (src/api/convert.py).                        *)
(*                                                                         *)
(* Representation.                                                         *)
(*  - A Python str is a sequence of one-character tokens.  ASCII           *)
(*    characters stand for themselves; a non-ASCII glyph is the token      *)
(*    "uXXXX" of its code point (the bullet U+2022 is "u2022").            *)
(*  - A font size is an integer number of 1/Scale points, so that          *)
(*    fractional sizes between the tier thresholds exist in the model.     *)
(*  - A bbox is the tuple <<x0, y0, x1, y1>>.                              *)
(*  - Python None is the string "None" where a string may stand, and       *)
(*    NoBBox where a bbox may stand.  A value that is None or a str (a     *)
(*    table cell) is <<>> for None and <<s>> for the str s.                *)
(***************************************************************************)
EXTENDS Integers, Sequences, FiniteSets, TLC

VARIABLES
    pc,                 \* position of the operation being modelled
    size,               \* span["size"], in 1/Scale points
    is_bold,            \* bool(flags & 2**4)
    heading_level,      \* result of _calculate_heading_level
    bbox1,              \* first argument of _bbox_overlap
    bbox2,              \* second argument of _bbox_overlap
    is_overlap,         \* result of _bbox_overlap
    line_bbox,          \* line.get("bbox", [0, 0, 0, 0])
    page_width,         \* page.rect.width
    block_bbox,         \* the enclosing block's bbox, or NoBBox
    line_alignment,     \* result of _detect_text_alignment
    text,               \* span["text"].strip()
    is_list_item,       \* result of _is_list_item
    list_type,          \* result of _get_list_type, "None" when not called
    item,               \* what each renderer emits for the list item
    block_content,      \* argument of _block_to_html_list
    line_no,            \* index of the line the loop of _block_to_html_list is at
    html_lines,         \* html_lines of _block_to_html_list
    list_open,          \* list_open of _block_to_html_list
    current_list_type,  \* current_list_type of _block_to_html_list
    layout_mode,        \* self.layout_mode
    num_pages,          \* len(self.doc)
    page_num,           \* number of pages of self.doc read so far
    page,               \* the page read last, NoPage before the first
    all_blocks,         \* all_blocks of extract_with_formatting
    page_end,           \* history: Len(all_blocks) after each page read
    formatted_content,  \* self.formatted_content
    doc_open,           \* whether the fitz document self.doc is open
    calls,              \* number of renderer calls made on the formatter
    block_no,           \* index of the block the running renderer's loop is at
    html_content,       \* html_content of to_html
    markdown_content,   \* markdown_content of to_markdown
    document,           \* document of to_docx, as its body elements
    rendered,           \* what to_html, to_markdown and to_docx returned last
    raw_block,          \* one block of page.get_text("dict")["blocks"]
    emitted,            \* what each paragraph path emitted for raw_block
    logged_in,          \* 'user_id' in session
    export_count,       \* the user's export count of today in export_tracking
    pdf_files,          \* filenames of request.files.getlist("pdf_files")
    formats,            \* formats of batch_convert
    file_index,         \* index of the file the loop over pdf_files is at
    format_index,       \* index of the format the loop over formats is at
    failed,             \* history: the (file, format) pairs that raised, the
                        \* format being 0 when the extraction raised
    written,            \* (format, name) of the output files on disk
    converted_files,    \* converted_files of batch_convert
    zip_names,          \* arcnames of the ZIP, as (format, name) and README
    response,           \* status of the response, "none" before it
    export_tracking,    \* export_tracking: user key -> entry
    now,                \* datetime.now(), in instants (two to a day)
    cookie,             \* the session cookie the client holds
    uuids,              \* number of session ids uuid.uuid4() has issued
    threads,            \* the request each server thread serves
    delivered,          \* history: files delivered, per user key and day
    request,            \* endpoint, formats, layout_mode and files of a request
    formatter_doc,      \* formatter.doc: "none" before PDFFormatter(), then
                        \* "open" or "closed"
    local_doc,          \* the handler's own doc = fitz.open(...), likewise
    open_handles,       \* number of documents opened and not closed
    used_closed,        \* history: a document was used after its close()
    file_no,            \* index of the file the handler is at
    format_no,          \* index of the format the handler is at
    outcome             \* status the handler answered, "none" before

vars == <<pc, size, is_bold, heading_level, bbox1, bbox2, is_overlap,
          line_bbox, page_width, block_bbox, line_alignment,
          text, is_list_item, list_type, item,
          block_content, line_no, html_lines, list_open, current_list_type,
          layout_mode, num_pages, page_num, page, all_blocks, page_end,
          formatted_content, doc_open,
          calls, block_no, html_content, markdown_content, document, rendered,
          raw_block, emitted,
          logged_in, export_count, pdf_files, formats, file_index, format_index,
          failed, written, converted_files, zip_names, response,
          export_tracking, now, cookie, uuids, threads, delivered,
          request, formatter_doc, local_doc, open_handles, used_closed,
          file_no, format_no, outcome>>

headingVars == <<size, is_bold, heading_level>>
overlapVars == <<bbox1, bbox2, is_overlap>>
alignVars == <<line_bbox, page_width, block_bbox, line_alignment>>
listVars == <<text, is_list_item, list_type, item>>
htmlListVars == <<block_content, line_no, html_lines, list_open, current_list_type>>
extractVars ==
    <<layout_mode, num_pages, page_num, page, all_blocks, page_end,
      formatted_content, doc_open>>
renderVars == <<calls, block_no, html_content, markdown_content, document, rendered>>
paragraphVars == <<raw_block, emitted>>
batchVars ==
    <<logged_in, export_count, pdf_files, formats, file_index, format_index,
      failed, written, converted_files, zip_names, response>>

exportVars == <<export_tracking, now, cookie, uuids, threads, delivered>>

handleVars ==
    <<request, formatter_doc, local_doc, open_handles, used_closed,
      file_no, format_no, outcome>>

(***************************************************************************)
(* Bounds of the model.                                                    *)
(***************************************************************************)
Scale == 4          \* sizes are counted in 1/Scale points
MaxSize == 22       \* largest font size drawn, in points

Step == 10          \* x coordinates of lines and containers are multiples of Step
MaxX == 20          \* largest x coordinate drawn, in Steps

MaxLen == 5         \* longest span text drawn, in characters
MaxLines == 3       \* most lines drawn for one block
MaxPages == 2       \* most pages of one document
MaxCalls == 2       \* most renderer calls made on one formatter
MaxSpans == 2       \* most spans drawn for one line of a paragraph
MaxFiles == 2       \* most files of one batch request
MaxFormats == 2     \* most formats of one batch request
MaxNow == 2         \* last instant of the clock

\* src/app.py:23-24
GUEST_DAILY_LIMIT == 10
LOGGED_IN_DAILY_LIMIT == 30

Coord == {0, 5, 10, 11, 15, 20}

NoBBox == <<>>

Min(a, b) == IF a <= b THEN a ELSE b
Max(a, b) == IF a >= b THEN a ELSE b
Abs(a) == IF a >= 0 THEN a ELSE 0 - a

(***************************************************************************)
(* _bbox_overlap (src/app.py:201-204)                                      *)
(***************************************************************************)
BBoxOverlapEdgeExclusive(b1, b2) ==
    ~(b1[3] <= b2[1] \/ b2[3] <= b1[1] \/ b1[4] <= b2[2] \/ b2[4] <= b1[2])

_bbox_overlap(b1, b2) ==
    ~(b1[3] < b2[1] \/ b2[3] < b1[1] \/ b1[4] < b2[2] \/ b2[4] < b1[2])

(***************************************************************************)
(* _detect_text_alignment (src/app.py:270-306).  The thresholds            *)
(* 0.1 * w, 0.05 * w and w * 0.3 are compared after multiplying both       *)
(* sides by 10, 20 and 10, which keeps the comparison in the integers.     *)
(***************************************************************************)
AlignmentCenterInclusive(lb, pw, bb) ==
    IF Len(lb) < 4 THEN "left"
    ELSE LET container_left == IF Len(bb) >= 4 THEN bb[1] ELSE 0
             container_width == IF Len(bb) >= 4 THEN bb[3] - bb[1] ELSE pw
             line_left_margin == lb[1] - container_left
             line_right_margin == (container_left + container_width) - lb[3]
         IN  IF 10 * Abs(line_left_margin - line_right_margin) <= container_width
             THEN "center"
             ELSE IF /\ 20 * line_right_margin < container_width
                     /\ 10 * line_left_margin > 3 * container_width
             THEN "right"
             ELSE "left"

_detect_text_alignment(lb, pw, bb) ==
    IF Len(lb) < 4 THEN "left"
    ELSE LET container_left == IF Len(bb) >= 4 THEN bb[1] ELSE 0
             container_width == IF Len(bb) >= 4 THEN bb[3] - bb[1] ELSE pw
             line_left_margin == lb[1] - container_left
             line_right_margin == (container_left + container_width) - lb[3]
         IN  IF 10 * Abs(line_left_margin - line_right_margin) < container_width
             THEN "center"
             ELSE IF /\ 20 * line_right_margin < container_width
                     /\ 10 * line_left_margin > 3 * container_width
             THEN "right"
             ELSE IF 20 * line_left_margin < container_width
             THEN "left"
             ELSE "left"

(***************************************************************************)
(* Character classes of Python's re and str.strip, over the characters     *)
(* the model draws.                                                        *)
(***************************************************************************)
Whitespace == {" ", "\t", "\n", "\r"}
Digit == {"0", "1", "2", "3", "4", "5", "6", "7", "8", "9"}
LowerLetter == {"a", "b", "c", "d", "e", "f", "g", "h", "i", "j", "k", "l", "m",
                "n", "o", "p", "q", "r", "s", "t", "u", "v", "w", "x", "y", "z"}
UpperLetter == {"A", "B", "C", "D", "E", "F", "G", "H", "I", "J", "K", "L", "M",
                "N", "O", "P", "Q", "R", "S", "T", "U", "V", "W", "X", "Y", "Z"}
Letter == LowerLetter \cup UpperLetter
WordChar == Digit \cup Letter \cup {"_"}
RomanLower == {"i", "v", "x", "l", "c", "d", "m"}
RomanUpper == {"I", "V", "X", "L", "C", "D", "M"}

\* self.bullet_patterns (src/app.py:97), in list order
bullet_patterns ==
    <<"u2022", "u25CF", "u25E6", "u25AA", "u25AB", "u25A0", "u25A1", "u25C6",
      "u25C7", "-", "*">>

\* number of leading characters of t that are in class
PrefixLen(t, class) ==
    IF \A i \in 1 .. Len(t) : t[i] \in class THEN Len(t)
    ELSE (CHOOSE k \in 1 .. Len(t) :
              t[k] \notin class /\ \A i \in 1 .. (k - 1) : t[i] \in class) - 1

\* number of trailing characters of t that are in class
SuffixLen(t, class) ==
    IF \A i \in 1 .. Len(t) : t[i] \in class THEN Len(t)
    ELSE Len(t) - (CHOOSE k \in 1 .. Len(t) :
              t[k] \notin class /\ \A i \in (k + 1) .. Len(t) : t[i] \in class)

DropFirst(t, n) == SubSeq(t, n + 1, Len(t))

\* str.strip()
Strip(t) ==
    LET l == DropFirst(t, PrefixLen(t, Whitespace))
    IN  SubSeq(l, 1, Len(l) - SuffixLen(l, Whitespace))

\* str.startswith(prefix)
StartsWith(t, prefix) ==
    Len(t) >= Len(prefix) /\ SubSeq(t, 1, Len(prefix)) = prefix

\* re.match of ^C+E\s (many) or ^CE\s (not many): C a character class, E a
\* set of marker ends.  No character of a class used here is a marker end,
\* so the greedy C+ can only match the whole leading run of C.
ReMatchMarker(class, many, ends, t) ==
    LET run == PrefixLen(t, class)
        n == IF many \/ run = 0 THEN run ELSE 1
    IN  /\ n >= 1
        /\ Len(t) >= n + 2
        /\ t[n + 1] \in ends
        /\ t[n + 2] \in Whitespace

\* numbered_patterns (src/app.py:236-243), in list order
numbered_patterns ==
    << [class |-> Digit, many |-> TRUE, ends |-> {"."}],
       [class |-> Digit, many |-> TRUE, ends |-> {")"}],
       [class |-> Letter, many |-> FALSE, ends |-> {"."}],
       [class |-> Letter, many |-> FALSE, ends |-> {")"}],
       [class |-> RomanLower, many |-> TRUE, ends |-> {"."}],
       [class |-> RomanUpper, many |-> TRUE, ends |-> {"."}] >>

(***************************************************************************)
(* _is_list_item (src/app.py:224-249)                                      *)
(***************************************************************************)
_is_list_item(t) ==
    IF t = <<>> THEN FALSE
    ELSE \/ \E i \in 1 .. Len(bullet_patterns) :
              \/ StartsWith(t, <<bullet_patterns[i], " ">>)
              \/ StartsWith(t, <<bullet_patterns[i], "\t">>)
         \/ \E k \in 1 .. Len(numbered_patterns) :
              ReMatchMarker(numbered_patterns[k].class, numbered_patterns[k].many,
                            numbered_patterns[k].ends, t)

(***************************************************************************)
(* _get_list_type (src/app.py:251-268)                                     *)
(***************************************************************************)
_get_list_type(t) ==
    IF t = <<>> THEN "None"
    ELSE IF \E i \in 1 .. Len(bullet_patterns) : StartsWith(t, <<bullet_patterns[i]>>)
    THEN "bullet"
    ELSE IF ReMatchMarker(Digit, TRUE, {".", ")"}, t) THEN "numbered"
    ELSE IF ReMatchMarker(Letter, FALSE, {".", ")"}, t) THEN "lettered"
    ELSE IF ReMatchMarker(RomanLower \cup RomanUpper, TRUE, {"."}, t) THEN "roman"
    ELSE "bullet"

(***************************************************************************)
(* Marker stripping, the same code in the three list renderers             *)
(* (src/app.py:405-413, 552-560, 715-723).                                 *)
(***************************************************************************)
\* the loop over bullet_patterns: the first glyph the text starts with is
\* cut off and the rest is stripped of surrounding whitespace
RemoveBullet(t) ==
    IF \E i \in 1 .. Len(bullet_patterns) : StartsWith(t, <<bullet_patterns[i]>>)
    THEN LET i == CHOOSE j \in 1 .. Len(bullet_patterns) :
                      /\ StartsWith(t, <<bullet_patterns[j]>>)
                      /\ \A h \in 1 .. (j - 1) : ~StartsWith(t, <<bullet_patterns[h]>>)
         IN  Strip(DropFirst(t, Len(<<bullet_patterns[i]>>)))
    ELSE t

\* re.sub(r'^[\d\w]+[\.\)]\s*', '', t)
RemoveNumber(t) ==
    LET n == PrefixLen(t, WordChar)
    IN  IF n >= 1 /\ Len(t) >= n + 1 /\ t[n + 1] \in {".", ")"}
        THEN LET rest == DropFirst(t, n + 1)
             IN  DropFirst(rest, PrefixLen(rest, Whitespace))
        ELSE t

StripMarker(t) == RemoveNumber(RemoveBullet(t))

(***************************************************************************)
(* _calculate_heading_level (src/app.py:206-222); sz is in 1/Scale points. *)
(* The font argument is never read by the code and is left out.            *)
(***************************************************************************)
HeadingLevelTier6First(sz, bold) ==
    IF sz <= 10 * Scale THEN 0
    ELSE IF sz >= 20 * Scale THEN 1
    ELSE IF sz >= 18 * Scale THEN 2
    ELSE IF sz >= 16 * Scale THEN 3
    ELSE IF sz >= 13 * Scale THEN 6
    ELSE IF sz >= 14 * Scale \/ (bold /\ sz >= 12 * Scale) THEN 4
    ELSE IF bold /\ sz >= 11 * Scale THEN 5
    ELSE 0

_calculate_heading_level(sz, bold) ==
    IF sz <= 10 * Scale THEN 0
    ELSE IF sz >= 20 * Scale THEN 1
    ELSE IF sz >= 18 * Scale THEN 2
    ELSE IF sz >= 16 * Scale THEN 3
    ELSE IF sz >= 14 * Scale \/ (bold /\ sz >= 12 * Scale) THEN 4
    ELSE IF bold /\ sz >= 11 * Scale THEN 5
    ELSE IF sz >= 13 * Scale THEN 6
    ELSE 0

(***************************************************************************)
(* The span record built by extract_with_formatting for one raw span       *)
(* (src/app.py:150-179).  raw.text is the extractor's text; the record     *)
(* carries the stripped text.  flags is the font-flags bitmask.            *)
(***************************************************************************)
FlagBold(flags) == (flags \div 16) % 2 = 1
FlagItalic(flags) == (flags \div 2) % 2 = 1

ClassifySpan(raw, alignment, lbbox) ==
    LET t == Strip(raw.text)
        is_list == _is_list_item(t)
    IN  [text |-> t,
         bold |-> FlagBold(raw.flags),
         italic |-> FlagItalic(raw.flags),
         size |-> raw.size,
         font |-> raw.font,
         heading |-> _calculate_heading_level(raw.size, FlagBold(raw.flags)),
         is_list |-> is_list,
         list_type |-> IF is_list THEN _get_list_type(t) ELSE "None",
         alignment |-> alignment,
         bbox |-> lbbox]

(***************************************************************************)
(* _detect_block_type (src/app.py:308-320)                                 *)
(***************************************************************************)
DetectBlockTypeListFirst(bc) ==
    IF bc = <<>> THEN "text"
    ELSE IF \E i \in 1 .. Len(bc) : bc[i] # <<>> /\ bc[i][1].is_list THEN "list"
    ELSE IF bc[1] # <<>> /\ bc[1][1].heading > 0 THEN "heading"
    ELSE "paragraph"

_detect_block_type(bc) ==
    IF bc = <<>> THEN "text"
    ELSE IF bc[1] # <<>> /\ bc[1][1].heading > 0 THEN "heading"
    ELSE IF \E i \in 1 .. Len(bc) : bc[i] # <<>> /\ bc[i][1].is_list THEN "list"
    ELSE "paragraph"

(***************************************************************************)
(* One list item as each renderer emits it.  Literal pieces of markup      *)
(* ('<li>', '***', '- ') are single tokens; text stays character by        *)
(* character.                                                              *)
(***************************************************************************)
RECURSIVE JoinWithSpace(_)
\* ' '.join(texts)
JoinWithSpace(texts) ==
    IF texts = <<>> THEN <<>>
    ELSE IF Len(texts) = 1 THEN texts[1]
    ELSE texts[1] \o <<" ">> \o JoinWithSpace(Tail(texts))

SpanTexts(line) == [i \in 1 .. Len(line) |-> line[i].text]

RECURSIVE AppendSpaced(_, _)
\* for span in spans: text_content += ' ' + span
AppendSpaced(acc, texts) ==
    IF texts = <<>> THEN acc
    ELSE AppendSpaced(acc \o <<" ">> \o texts[1], Tail(texts))

\* src/app.py:405-419
HtmlListItem(line) ==
    LET text_content == AppendSpaced(StripMarker(line[1].text), SpanTexts(Tail(line)))
    IN  <<"<li>">> \o Strip(text_content) \o <<"</li>">>

\* src/app.py:564-570, 581-587, 606-612
MarkdownEmphasis(span) ==
    IF span.bold /\ span.italic THEN <<"***">> \o span.text \o <<"***">>
    ELSE IF span.bold THEN <<"**">> \o span.text \o <<"**">>
    ELSE IF span.italic THEN <<"*">> \o span.text \o <<"*">>
    ELSE span.text

\* src/app.py:552-576
MarkdownListItem(line) ==
    LET rest == Tail(line)
        text_content ==
            AppendSpaced(StripMarker(line[1].text),
                         [i \in 1 .. Len(rest) |-> MarkdownEmphasis(rest[i])])
    IN  IF line[1].list_type = "numbered"
        THEN <<"1. ">> \o Strip(text_content)
        ELSE <<"- ">> \o Strip(text_content)

\* src/app.py:715-740: the runs of the 'List Bullet' paragraph; size is
\* <<>> for a run whose font size is never set
DocxListItem(line) ==
    LET rest == Tail(line)
    IN  <<[text |-> StripMarker(line[1].text), bold |-> line[1].bold,
           italic |-> line[1].italic, size |-> <<>>]>>
        \o [i \in 1 .. Len(rest) |->
               [text |-> <<" ">> \o rest[i].text, bold |-> rest[i].bold,
                italic |-> rest[i].italic, size |-> <<rest[i].size>>]]

(***************************************************************************)
(* extract_with_formatting, one page (src/app.py:103-195).                 *)
(* A page of the document is what the PyMuPDF calls on it return:          *)
(*   width   page.rect.width                                               *)
(*   blocks  page.get_text("dict")["blocks"], each [has_lines, bbox,       *)
(*           lines], a line [bbox, spans], a span [text, flags, size,      *)
(*           font]                                                         *)
(*   found   the tables page.find_tables() yields, each [data, bbox]       *)
(*   error   where table detection raises: [in |-> "none"], [in |->        *)
(*           "find_tables"] or [in |-> "extract", table |-> k] for         *)
(*           table.extract() of the k-th table                             *)
(***************************************************************************)
TableBlock(t) == [data |-> t.data, bbox |-> t.bbox, type |-> "table"]

\* src/app.py:109-122: the try block; what was appended before the error stays
DetectTables(pg, mode) ==
    IF mode # "preserve" THEN <<>>
    ELSE IF pg.error.in = "find_tables" THEN <<>>
    ELSE LET n == IF pg.error.in = "extract"
                  THEN pg.error.table - 1 ELSE Len(pg.found)
         IN  [i \in 1 .. n |-> TableBlock(pg.found[i])]

\* src/app.py:129-133
IsTableBlockFirstOnly(bbox, tables) ==
    tables # <<>> /\ _bbox_overlap(bbox, tables[1].bbox)

IsTableBlock(bbox, tables) ==
    \E i \in 1 .. Len(tables) : _bbox_overlap(bbox, tables[i].bbox)

\* src/app.py:142-182: the spans of one line whose stripped text is not empty
LineContent(line, pw, bbbox) ==
    LET alignment == _detect_text_alignment(line.bbox, pw, bbbox)
        spans == [i \in 1 .. Len(line.spans) |->
                     ClassifySpan(line.spans[i], alignment, line.bbox)]
    IN  SelectSeq(spans, LAMBDA sp : sp.text # <<>>)

\* src/app.py:138-182: the non-empty lines of one block
BlockContent(block, pw) ==
    SelectSeq([i \in 1 .. Len(block.lines) |-> LineContent(block.lines[i], pw, block.bbox)],
              LAMBDA lc : lc # <<>>)

RECURSIVE TextBlocks(_, _, _)
\* src/app.py:124-191: the loop over the page's blocks
TextBlocks(blocks, pw, tables) ==
    IF blocks = <<>> THEN <<>>
    ELSE LET block == blocks[1]
             rest == TextBlocks(Tail(blocks), pw, tables)
             content == BlockContent(block, pw)
         IN  IF ~block.has_lines THEN rest
             ELSE IF IsTableBlock(block.bbox, tables) THEN rest
             ELSE IF content = <<>> THEN rest
             ELSE <<[content |-> content,
                     type |-> _detect_block_type(content),
                     bbox |-> block.bbox]>> \o rest

\* src/app.py:103-195: what one page appends to all_blocks
PageBlocksTablesFirst(pg, mode) ==
    LET tables == DetectTables(pg, mode)
    IN  tables \o TextBlocks(pg.blocks, pg.width, tables)

PageBlocks(pg, mode) ==
    LET tables == DetectTables(pg, mode)
    IN  TextBlocks(pg.blocks, pg.width, tables) \o tables

(***************************************************************************)
(* _block_to_html_list (src/app.py:379-429).  st holds the three locals    *)
(* html_lines, current_list_type and list_open; HtmlListLine is one pass   *)
(* of the loop body, HtmlListEnd the code after the loop.                  *)
(***************************************************************************)
OpenTag(lt) == IF lt = "bullet" THEN <<"<ul>">> ELSE <<"<ol>">>
CloseTag(lt) == IF lt = "bullet" THEN <<"</ul>">> ELSE <<"</ol>">>

HtmlListStart == [html_lines |-> <<>>, current_list_type |-> "None", list_open |-> FALSE]

HtmlListLineMergeTypes(st, line) ==
    IF line = <<>> THEN st
    ELSE IF line[1].is_list
    THEN LET lt == line[1].list_type
             fresh == ~st.list_open
             opening == IF fresh THEN <<OpenTag(lt)>> ELSE <<>>
         IN  [html_lines |-> st.html_lines \o opening \o <<HtmlListItem(line)>>,
              current_list_type |-> IF fresh THEN lt ELSE st.current_list_type,
              list_open |-> TRUE]
    ELSE LET text_content == JoinWithSpace(SpanTexts(line))
         IN  IF Strip(text_content) # <<>>
             THEN [st EXCEPT !.html_lines = @ \o <<(<<"<p>">> \o text_content \o <<"</p>">>)>>]
             ELSE st

HtmlListLine(st, line) ==
    IF line = <<>> THEN st
    ELSE IF line[1].is_list
    THEN LET lt == line[1].list_type
             fresh == ~st.list_open \/ lt # st.current_list_type
             closing == IF fresh /\ st.list_open
                        THEN <<CloseTag(st.current_list_type)>> ELSE <<>>
             opening == IF fresh THEN <<OpenTag(lt)>> ELSE <<>>
         IN  [html_lines |-> st.html_lines \o closing \o opening
                                \o <<HtmlListItem(line)>>,
              current_list_type |-> IF fresh THEN lt ELSE st.current_list_type,
              list_open |-> TRUE]
    ELSE LET text_content == JoinWithSpace(SpanTexts(line))
         IN  IF Strip(text_content) # <<>>
             THEN [st EXCEPT !.html_lines = @ \o <<(<<"<p>">> \o text_content \o <<"</p>">>)>>]
             ELSE st

HtmlListEndLeaveOpen(st) == st.html_lines

HtmlListEnd(st) ==
    IF st.list_open
    THEN st.html_lines \o <<CloseTag(st.current_list_type)>>
    ELSE st.html_lines

RECURSIVE HtmlListLoop(_, _)
HtmlListLoop(st, lines) ==
    IF lines = <<>> THEN st
    ELSE HtmlListLoop(HtmlListLine(st, lines[1]), Tail(lines))

_block_to_html_list(bc) == HtmlListEnd(HtmlListLoop(HtmlListStart, bc))

(***************************************************************************)
(* String helpers of the renderers.  A table cell is <<>> for None and     *)
(* <<s>> for the str s, so that None and '' are different cells.           *)
(***************************************************************************)
RECURSIVE Concat(_)
\* ''.join(parts), also the extend of a list by each of several lists
Concat(parts) ==
    IF parts = <<>> THEN <<>> ELSE parts[1] \o Concat(Tail(parts))

RECURSIVE Join(_, _)
\* sep.join(texts)
Join(sep, texts) ==
    IF texts = <<>> THEN <<>>
    ELSE IF Len(texts) = 1 THEN texts[1]
    ELSE texts[1] \o sep \o Join(sep, Tail(texts))

\* str(n) of a heading level, as f'{heading_level}' formats it
LevelDigit(n) == <<"0", "1", "2", "3", "4", "5", "6", "7", "8", "9">>[n + 1]

\* '#' * n
Hashes(n) == [i \in 1 .. n |-> "#"]

\* ' '.join([span['text'] for span in line])
LineText(line) == JoinWithSpace(SpanTexts(line))

\* ' '.join([' '.join([span['text'] for span in line]) for line in block_content])
HeadingText(bc) == JoinWithSpace([i \in 1 .. Len(bc) |-> LineText(bc[i])])

\* cell or ""
CellOrEmpty(cell) == IF cell = <<>> THEN <<>> ELSE cell[1]

(***************************************************************************)
(* HTML renderer, preserve mode (src/app.py:368-377, 431-483).  Each       *)
(* operator returns the list of lines the code returns.                    *)
(***************************************************************************)
\* f' style="text-align: {alignment};"' if alignment != 'left' else ''
AlignStyle(alignment) ==
    IF alignment # "left"
    THEN <<" style=\"text-align: ", alignment, ";\"">>
    ELSE <<>>

_block_to_html_heading(bc) ==
    IF bc = <<>> \/ bc[1] = <<>> THEN <<>>
    ELSE LET level == bc[1][1].heading
             alignment == bc[1][1].alignment
             text_content == HeadingText(bc)
         IN  << <<"<h", LevelDigit(level)>> \o AlignStyle(alignment) \o <<">">>
                    \o text_content \o <<"</h", LevelDigit(level), ">">> >>

\* src/app.py:442-448
HtmlEmphasisBoldFirst(span) ==
    IF span.bold THEN <<"<strong>">> \o span.text \o <<"</strong>">>
    ELSE IF span.bold /\ span.italic
    THEN <<"<strong><em>">> \o span.text \o <<"</em></strong>">>
    ELSE IF span.italic THEN <<"<em>">> \o span.text \o <<"</em>">>
    ELSE span.text

HtmlEmphasis(span) ==
    IF span.bold /\ span.italic
    THEN <<"<strong><em>">> \o span.text \o <<"</em></strong>">>
    ELSE IF span.bold THEN <<"<strong>">> \o span.text \o <<"</strong>">>
    ELSE IF span.italic THEN <<"<em>">> \o span.text \o <<"</em>">>
    ELSE span.text

_block_to_html_paragraph(bc) ==
    IF bc = <<>> THEN <<>>
    ELSE LET alignment == IF bc[1] # <<>> THEN bc[1][1].alignment ELSE "left"
             line_html(line) ==
                 Concat([j \in 1 .. Len(line) |-> HtmlEmphasis(line[j]) \o <<" ">>])
                     \o (IF Len(bc) > 1 THEN <<"<br>">> ELSE <<>>)
         IN  << <<"<p">> \o AlignStyle(alignment) \o <<">">>
                    \o Concat([i \in 1 .. Len(bc) |-> line_html(bc[i])])
                    \o <<"</p>">> >>

\* src/app.py:463
HasHeaders(first_row) ==
    /\ Len(first_row) > 0
    /\ \E j \in 1 .. Len(first_row) :
          first_row[j] # <<>> /\ first_row[j][1] # <<>> /\ Strip(first_row[j][1]) # <<>>

\* the string _table_to_html returns: its lines joined by '\n'
_table_to_html(table_data) ==
    IF table_data = <<>> THEN <<>>
    ELSE LET first_row == table_data[1]
             has_headers == HasHeaders(first_row)
             head == IF has_headers
                     THEN << <<"<thead><tr>">> >>
                          \o [j \in 1 .. Len(first_row) |->
                                 <<"<th>">> \o CellOrEmpty(first_row[j]) \o <<"</th>">>]
                          \o << <<"</tr></thead>">> >>
                     ELSE <<>>
             data_rows == IF has_headers THEN Tail(table_data) ELSE table_data
             row_html(row) ==
                 << <<"<tr>">> >>
                 \o [j \in 1 .. Len(row) |-> <<"<td>">> \o CellOrEmpty(row[j]) \o <<"</td>">>]
                 \o << <<"</tr>">> >>
         IN  Join(<<"\n">>,
                  << <<"<table>">> >> \o head \o << <<"<tbody>">> >>
                  \o Concat([i \in 1 .. Len(data_rows) |-> row_html(data_rows[i])])
                  \o << <<"</tbody>">>, <<"</table>">> >>)

(***************************************************************************)
(* Markdown renderer, preserve mode (src/app.py:521-648).                  *)
(***************************************************************************)
_block_to_markdown_heading(bc) ==
    IF bc = <<>> \/ bc[1] = <<>> THEN <<>>
    ELSE LET level == bc[1][1].heading
             alignment == bc[1][1].alignment
             text_content == HeadingText(bc)
             heading_text == Hashes(level) \o <<" ">> \o text_content
         IN  IF alignment = "center"
             THEN <<heading_text \o <<"\n<div align=\"center\">">> \o text_content
                        \o <<"</div>">> >>
             ELSE IF alignment = "right"
             THEN <<heading_text \o <<"\n<div align=\"right\">">> \o text_content
                        \o <<"</div>">> >>
             ELSE <<heading_text>>

\* src/app.py:579-588, 604-613: line_text before it is stripped
MarkdownLineText(line) ==
    Concat([j \in 1 .. Len(line) |-> MarkdownEmphasis(line[j]) \o <<" ">>])

\* src/app.py:544-591, one pass of the loop
MarkdownListLine(line) ==
    IF line = <<>> THEN <<>>
    ELSE IF line[1].is_list THEN <<MarkdownListItem(line)>>
    ELSE IF Strip(MarkdownLineText(line)) # <<>> THEN <<Strip(MarkdownLineText(line))>>
    ELSE <<>>

_block_to_markdown_list(bc) ==
    Concat([i \in 1 .. Len(bc) |-> MarkdownListLine(bc[i])])

_block_to_markdown_paragraph(bc) ==
    IF bc = <<>> THEN <<>>
    ELSE LET alignment == IF bc[1] # <<>> THEN bc[1][1].alignment ELSE "left"
             stripped == [i \in 1 .. Len(bc) |-> Strip(MarkdownLineText(bc[i]))]
             paragraph_lines == SelectSeq(stripped, LAMBDA l : l # <<>>)
             paragraph_text == JoinWithSpace(paragraph_lines)
         IN  IF alignment = "center"
             THEN << <<"<div align=\"center\">">> \o paragraph_text \o <<"</div>">> >>
             ELSE IF alignment = "right"
             THEN << <<"<div align=\"right\">">> \o paragraph_text \o <<"</div>">> >>
             ELSE <<paragraph_text>>

\* '| ' + ' | '.join([str(cell or '') for cell in row]) + ' |'
MarkdownRow(row) ==
    <<"| ">> \o Join(<<" | ">>, [j \in 1 .. Len(row) |-> CellOrEmpty(row[j])]) \o <<" |">>

\* the string _table_to_markdown returns: its lines joined by '\n'
_table_to_markdown(table_data) ==
    IF table_data = <<>> THEN <<>>
    ELSE LET header == MarkdownRow(table_data[1])
             separator == <<"|">> \o [j \in 1 .. Len(table_data[1]) |-> "---|"]
             rest == Tail(table_data)
         IN  Join(<<"\n">>,
                  <<header, separator>> \o [i \in 1 .. Len(rest) |-> MarkdownRow(rest[i])])

(***************************************************************************)
(* DOCX renderer, preserve mode (src/app.py:687-787).  The document is the *)
(* sequence of its body elements: a heading [kind, level, text,            *)
(* alignment], a paragraph [kind, style, alignment, runs] with runs        *)
(* [text, bold, italic, size], or a table [kind, rows] with cells          *)
(* [text, bold].  size is <<>> for a run whose font size is never set and  *)
(* <<s>> otherwise; alignment is "None" when it is never set.              *)
(***************************************************************************)
_add_heading_to_docx(bc) ==
    IF bc = <<>> \/ bc[1] = <<>> THEN <<>>
    ELSE <<[kind |-> "heading",
            level |-> Min(9, bc[1][1].heading),
            text |-> HeadingText(bc),
            alignment |-> bc[1][1].alignment]>>

\* Pt(span.get('size', 11) if span.get('size', 0) > 8 else 11)
DocxRunSize(span) == IF span.size > 8 * Scale THEN span.size ELSE 11 * Scale

_add_paragraph_to_docx(bc) ==
    IF bc = <<>> THEN <<>>
    ELSE LET alignment == IF bc[1] # <<>> THEN bc[1][1].alignment ELSE "left"
             line_runs(line) ==
                 [j \in 1 .. Len(line) |->
                     [text |-> line[j].text \o <<" ">>, bold |-> line[j].bold,
                      italic |-> line[j].italic, size |-> <<DocxRunSize(line[j])>>]]
         IN  <<[kind |-> "paragraph", style |-> "Normal", alignment |-> alignment,
                runs |-> Concat([i \in 1 .. Len(bc) |-> line_runs(bc[i])])]>>

\* src/app.py:709-743, one pass of the loop
DocxListLine(line) ==
    IF line = <<>> THEN <<>>
    ELSE IF line[1].is_list
    THEN <<[kind |-> "paragraph", style |-> "List Bullet", alignment |-> "None",
            runs |-> DocxListItem(line)]>>
    ELSE _add_paragraph_to_docx(<<line>>)

_add_list_to_docx(bc) == Concat([i \in 1 .. Len(bc) |-> DocxListLine(bc[i])])

\* rows x cols cells; a cell the loop never writes stays empty and not bold
_add_table_to_docx(table_data) ==
    IF table_data = <<>> THEN <<>>
    ELSE LET cols == Len(table_data[1])
             cell(i, j) ==
                 IF j <= Len(table_data[i])
                 THEN [text |-> CellOrEmpty(table_data[i][j]), bold |-> (i = 1)]
                 ELSE [text |-> <<>>, bold |-> FALSE]
         IN  <<[kind |-> "table",
                rows |-> [i \in 1 .. Len(table_data) |-> [j \in 1 .. cols |-> cell(i, j)]]]>>

(***************************************************************************)
(* Clean layout mode (src/app.py:348-366, 507-519, 672-685).               *)
(***************************************************************************)
\* all_text: the stripped text of every line of every non-table block whose
\* stripped text is not empty
CleanLines(fc) ==
    Concat([i \in 1 .. Len(fc) |->
               IF fc[i].type = "table" THEN <<>>
               ELSE SelectSeq([k \in 1 .. Len(fc[i].content) |->
                                  Strip(LineText(fc[i].content[k]))],
                              LAMBDA l : l # <<>>)])

ToMarkdownCleanBlankLines(fc) == Join(<<"\n", "\n">>, CleanLines(fc))

_to_markdown_clean(fc) == JoinWithSpace(CleanLines(fc))

_to_html_clean(fc) ==
    Join(<<"\n">>,
         << <<"<!DOCTYPE html>">>, <<"<html>">>, <<"<head>">>,
            <<"<meta charset=\"UTF-8\">">>, <<"<title>PDF Content</title>">>,
            <<"</head>">>, <<"<body>">>, <<"<div>">>,
            <<"<p>">> \o JoinWithSpace(CleanLines(fc)) \o <<"</p>">>,
            <<"</div>">>, <<"</body>">>, <<"</html>">> >>)

\* document.add_paragraph(text): one paragraph of the default style, with
\* one run of unset bold, italic and size when the text is not empty
_to_docx_clean(fc) ==
    LET all_text == JoinWithSpace(CleanLines(fc))
    IN  <<[kind |-> "paragraph", style |-> "Normal", alignment |-> "None",
           runs |-> IF all_text = <<>> THEN <<>>
                    ELSE <<[text |-> all_text, bold |-> FALSE, italic |-> FALSE,
                            size |-> <<>>]>>]>>

(***************************************************************************)
(* The loop bodies of to_html, to_markdown and to_docx in preserve mode    *)
(* (src/app.py:331-343, 491-503, 656-668): what one block appends.         *)
(***************************************************************************)
HtmlHead ==
    << <<"<!DOCTYPE html>">>, <<"<html>">>, <<"<head>">>,
       <<"<meta charset=\"UTF-8\">">>, <<"<title>PDF Content</title>">>,
       <<"<style>table { border-collapse: collapse; width: 100%; margin: 20px 0; } th, td { border: 1px solid #ddd; padding: 8px; text-align: left; } th { background-color: #f2f2f2; }</style>">>,
       <<"</head>">>, <<"<body>">> >>

HtmlFoot == << <<"</body>">>, <<"</html>">> >>

HtmlBlock(block) ==
    IF block.type = "table" THEN <<_table_to_html(block.data)>>
    ELSE IF block.type = "heading" THEN _block_to_html_heading(block.content)
    ELSE IF block.type = "list" THEN _block_to_html_list(block.content)
    ELSE _block_to_html_paragraph(block.content)

MarkdownBlock(block) ==
    IF block.type = "table" THEN <<_table_to_markdown(block.data)>>
    ELSE IF block.type = "heading" THEN _block_to_markdown_heading(block.content)
    ELSE IF block.type = "list" THEN _block_to_markdown_list(block.content)
    ELSE _block_to_markdown_paragraph(block.content)

DocxBlock(block) ==
    IF block.type = "table" THEN _add_table_to_docx(block.data)
    ELSE IF block.type = "heading" THEN _add_heading_to_docx(block.content)
    ELSE IF block.type = "list" THEN _add_list_to_docx(block.content)
    ELSE _add_paragraph_to_docx(block.content)

\* '\n\n'.join([item for item in markdown_content if item.strip()])
MarkdownJoin(items) ==
    Join(<<"\n", "\n">>, SelectSeq(items, LAMBDA it : Strip(it) # <<>>))

(***************************************************************************)
(* The serverless handler's HTML branch (src/api/convert.py:44-83).  doc   *)
(* is the sequence of the document's pages.                                *)
(***************************************************************************)
\* src/api/convert.py:55-70: line_text of one line
HandlerLineText(line) ==
    LET piece(raw) ==
            LET t == Strip(raw.text)
            IN  IF t = <<>> THEN <<>>
                ELSE HtmlEmphasis([text |-> t, bold |-> FlagBold(raw.flags),
                                   italic |-> FlagItalic(raw.flags)]) \o <<" ">>
    IN  Concat([j \in 1 .. Len(line.spans) |-> piece(line.spans[j])])

\* src/api/convert.py:52-73: the <p> lines of one block
HandlerBlockLines(block) ==
    IF ~block.has_lines THEN <<>>
    ELSE LET texts == [k \in 1 .. Len(block.lines) |-> HandlerLineText(block.lines[k])]
             kept == SelectSeq(texts, LAMBDA t : Strip(t) # <<>>)
         IN  [k \in 1 .. Len(kept) |-> <<"<p>">> \o Strip(kept[k]) \o <<"</p>">>]

\* src/api/convert.py:46-80: the "content" of the response
HandlerHtml(doc) ==
    Join(<<"\n">>,
         << <<"<!DOCTYPE html>">>, <<"<html>">>, <<"<head>">>,
            <<"<meta charset=\"UTF-8\">">>, <<"<title>PDF Content</title>">>,
            <<"</head>">>, <<"<body>">> >>
         \o Concat([p \in 1 .. Len(doc) |->
                Concat([b \in 1 .. Len(doc[p].blocks) |->
                           HandlerBlockLines(doc[p].blocks[b])])])
         \o << <<"</body>">>, <<"</html>">> >>)

(***************************************************************************)
(* Values of the variables an operation does not use.                      *)
(***************************************************************************)
HeadingIdle == size = 0 /\ is_bold = FALSE /\ heading_level = 0
OverlapIdle == bbox1 = <<0, 0, 0, 0>> /\ bbox2 = <<0, 0, 0, 0>> /\ is_overlap = FALSE
AlignIdle ==
    /\ line_bbox = <<0, 0, 0, 0>>
    /\ page_width = 0
    /\ block_bbox = NoBBox
    /\ line_alignment = "left"

NoItem == [html |-> <<>>, markdown |-> <<>>, docx |-> <<>>]
ListIdle == text = <<>> /\ is_list_item = FALSE /\ list_type = "None" /\ item = NoItem

HtmlListIdle ==
    /\ block_content = <<>>
    /\ line_no = 0
    /\ html_lines = <<>>
    /\ list_open = FALSE
    /\ current_list_type = "None"

NoPage ==
    [width |-> 0, blocks |-> <<>>, found |-> <<>>, error |-> [in |-> "none", table |-> 0]]

ExtractIdle ==
    /\ layout_mode = "preserve"
    /\ num_pages = 0
    /\ page_num = 0
    /\ page = NoPage
    /\ all_blocks = <<>>
    /\ page_end = <<>>
    /\ formatted_content = <<>>
    /\ doc_open = FALSE

\* a result is <<>> before the renderer has returned one and <<r>> after
NotRendered == [html |-> <<>>, markdown |-> <<>>, docx |-> <<>>]

RenderIdle ==
    /\ calls = 0
    /\ block_no = 0
    /\ html_content = <<>>
    /\ markdown_content = <<>>
    /\ document = <<>>
    /\ rendered = NotRendered

NoRawBlock == [has_lines |-> FALSE, bbox |-> <<0, 0, 0, 0>>, lines |-> <<>>]
NotEmitted == [html |-> <<>>, markdown |-> <<>>, docx |-> <<>>, serverless |-> <<>>]
ParagraphIdle == raw_block = NoRawBlock /\ emitted = NotEmitted

\* the server threads, the session ids uuid4 can issue, the one username
ThreadOrder == <<"t1", "t2">>
Threads == {ThreadOrder[n] : n \in 1 .. Len(ThreadOrder)}
Sids == <<"s1", "s2">>
UserKey == <<"user", "u">>
GuestKey(sid) == <<"guest", sid>>
Keys == {UserKey} \cup {GuestKey(Sids[n]) : n \in 1 .. Len(Sids)}
NoKey == <<"none", "none">>

\* two instants make a day
Today(instant) == instant \div 2
Days == 0 .. Today(MaxNow)

NoEntry == [present |-> FALSE, count |-> 0, date |-> 0, last_export |-> 0]
NoSession == [user_id |-> "None", session_id |-> "None"]
IdleThread ==
    [pc |-> "idle", handler |-> "none", session |-> NoSession, modified |-> FALSE,
     user_key |-> NoKey, now |-> 0, day |-> 0, file_count |-> 0, converted |-> 0, todo |-> 0,
     current_exports |-> 0, saved |-> 0, response |-> "none"]

ExportsIdle ==
    /\ export_tracking = [k \in Keys |-> NoEntry]
    /\ now = 0
    /\ cookie = NoSession
    /\ uuids = 0
    /\ threads = [t \in Threads |-> IdleThread]
    /\ delivered = [k \in Keys |-> [d \in Days |-> 0]]

NoRequest == [endpoint |-> "none", formats |-> <<>>, layout_mode |-> "preserve", files |-> 0]

HandlesIdle ==
    /\ request = NoRequest
    /\ formatter_doc = "none"
    /\ local_doc = "none"
    /\ open_handles = 0
    /\ used_closed = FALSE
    /\ file_no = 0
    /\ format_no = 0
    /\ outcome = "none"

BatchIdle ==
    /\ logged_in = FALSE
    /\ export_count = 0
    /\ pdf_files = <<>>
    /\ formats = <<>>
    /\ file_index = 0
    /\ format_index = 0
    /\ failed = {}
    /\ written = {}
    /\ converted_files = <<>>
    /\ zip_names = <<>>
    /\ response = "none"

IdleExcept(used) ==
    /\ IF "heading" \in used THEN TRUE ELSE HeadingIdle
    /\ IF "overlap" \in used THEN TRUE ELSE OverlapIdle
    /\ IF "align" \in used THEN TRUE ELSE AlignIdle
    /\ IF "list" \in used THEN TRUE ELSE ListIdle
    /\ IF "htmllist" \in used THEN TRUE ELSE HtmlListIdle
    /\ IF "extract" \in used THEN TRUE ELSE ExtractIdle
    /\ IF "render" \in used THEN TRUE ELSE RenderIdle
    /\ IF "paragraph" \in used THEN TRUE ELSE ParagraphIdle
    /\ IF "batch" \in used THEN TRUE ELSE BatchIdle
    /\ IF "exports" \in used THEN TRUE ELSE ExportsIdle
    /\ IF "handles" \in used THEN TRUE ELSE HandlesIdle

UnchangedExcept(used) ==
    /\ IF "heading" \in used THEN TRUE ELSE UNCHANGED headingVars
    /\ IF "overlap" \in used THEN TRUE ELSE UNCHANGED overlapVars
    /\ IF "align" \in used THEN TRUE ELSE UNCHANGED alignVars
    /\ IF "list" \in used THEN TRUE ELSE UNCHANGED listVars
    /\ IF "htmllist" \in used THEN TRUE ELSE UNCHANGED htmlListVars
    /\ IF "extract" \in used THEN TRUE ELSE UNCHANGED extractVars
    /\ IF "render" \in used THEN TRUE ELSE UNCHANGED renderVars
    /\ IF "paragraph" \in used THEN TRUE ELSE UNCHANGED paragraphVars
    /\ IF "batch" \in used THEN TRUE ELSE UNCHANGED batchVars
    /\ IF "exports" \in used THEN TRUE ELSE UNCHANGED exportVars
    /\ IF "handles" \in used THEN TRUE ELSE UNCHANGED handleVars

(***************************************************************************)
(* Span Classifier: one call of _calculate_heading_level.                  *)
(***************************************************************************)
Sizes == 0 .. (MaxSize * Scale)

InitHeading ==
    /\ pc = "call"
    /\ size \in Sizes
    /\ is_bold \in BOOLEAN
    /\ heading_level = 0
    /\ IdleExcept({"heading"})

CalculateHeadingLevel ==
    /\ pc = "call"
    /\ heading_level' = _calculate_heading_level(size, is_bold)
    /\ pc' = "return"
    /\ UNCHANGED <<size, is_bold>>
    /\ UnchangedExcept({"heading"})

NextHeading == CalculateHeadingLevel

SpecHeading == InitHeading /\ [][NextHeading]_vars

(***************************************************************************)
(* Block Assembler: one call of _bbox_overlap.                             *)
(***************************************************************************)
Boxes == {b \in Coord \X Coord \X Coord \X Coord : b[1] <= b[3] /\ b[2] <= b[4]}

InitOverlap ==
    /\ pc = "call"
    /\ bbox1 \in Boxes
    /\ bbox2 \in Boxes
    /\ is_overlap = FALSE
    /\ IdleExcept({"overlap"})

BBoxOverlap ==
    /\ pc = "call"
    /\ is_overlap' = _bbox_overlap(bbox1, bbox2)
    /\ pc' = "return"
    /\ UNCHANGED <<bbox1, bbox2>>
    /\ UnchangedExcept({"overlap"})

NextOverlap == BBoxOverlap

SpecOverlap == InitOverlap /\ [][NextOverlap]_vars

(***************************************************************************)
(* Alignment Detector: one call of _detect_text_alignment, for a line and  *)
(* either the enclosing block or (no block bbox) the page.                 *)
(***************************************************************************)
XGrid == {k * Step : k \in 0 .. MaxX}
PageWidth == MaxX * Step
Spans1D == {r \in XGrid \X XGrid : r[1] <= r[2]}

InitAlign ==
    /\ pc = "call"
    /\ \E r \in Spans1D : line_bbox = <<r[1], 0, r[2], 10>>
    /\ page_width = PageWidth
    /\ \/ block_bbox = NoBBox
       \/ \E r \in Spans1D : block_bbox = <<r[1], 0, r[2], 10>>
    /\ line_alignment = "left"
    /\ IdleExcept({"align"})

DetectTextAlignment ==
    /\ pc = "call"
    /\ line_alignment' = _detect_text_alignment(line_bbox, page_width, block_bbox)
    /\ pc' = "return"
    /\ UNCHANGED <<line_bbox, page_width, block_bbox>>
    /\ UnchangedExcept({"align"})

NextAlign == DetectTextAlignment

SpecAlign == InitAlign /\ [][NextAlign]_vars

(***************************************************************************)
(* List Detector and marker stripping: a stripped, non-empty span text is  *)
(* classified as extract_with_formatting does (src/app.py:165-166); when   *)
(* it is a list item, the line made of that one span is emitted by the     *)
(* list branch of each renderer.                                           *)
(***************************************************************************)
SeqsUpTo(S, n) == UNION {[1 .. k -> S] : k \in 0 .. n}

TextAlphabet == {"u2022", "-", " ", "\t", "3", "a", "i", "V", ".", ")"}

Texts ==
    {t \in SeqsUpTo(TextAlphabet, MaxLen) :
        t # <<>> /\ t[1] \notin Whitespace /\ t[Len(t)] \notin Whitespace}

\* flags 0 (regular), 10pt, as a body-text span of a list block
BodySpan(t) ==
    ClassifySpan([text |-> t, flags |-> 0, size |-> 10 * Scale, font |-> "Helvetica"],
                 "left", <<0, 0, 0, 0>>)

InitListDetect ==
    /\ pc = "call"
    /\ text \in Texts
    /\ is_list_item = FALSE
    /\ list_type = "None"
    /\ item = NoItem
    /\ IdleExcept({"list"})

DetectListItem ==
    /\ pc = "call"
    /\ is_list_item' = _is_list_item(text)
    /\ list_type' = IF _is_list_item(text) THEN _get_list_type(text) ELSE "None"
    /\ pc' = "classified"
    /\ UNCHANGED <<text, item>>
    /\ UnchangedExcept({"list"})

RenderListItem ==
    /\ pc = "classified"
    /\ is_list_item
    /\ LET line == <<BodySpan(text)>>
       IN  item' = [html |-> HtmlListItem(line),
                    markdown |-> MarkdownListItem(line),
                    docx |-> DocxListItem(line)]
    /\ pc' = "rendered"
    /\ UNCHANGED <<text, is_list_item, list_type>>
    /\ UnchangedExcept({"list"})

NextListDetect == DetectListItem \/ RenderListItem

SpecListDetect == InitListDetect /\ [][NextListDetect]_vars

(***************************************************************************)
(* HTML list renderer: _block_to_html_list on one block of kind list, one  *)
(* loop pass per step.                                                     *)
(***************************************************************************)
BoldSpan(t) ==
    ClassifySpan([text |-> t, flags |-> 16, size |-> 10 * Scale, font |-> "Helvetica"],
                 "left", <<0, 0, 0, 0>>)

ListLines ==
    { <<BodySpan(<<"u2022", " ", "a">>)>>,
      <<BodySpan(<<"-", " ", "b">>)>>,
      <<BodySpan(<<"1", ".", " ", "c">>)>>,
      <<BodySpan(<<"a", ")", " ", "d">>)>>,
      <<BodySpan(<<"i", "v", ".", " ", "e">>)>>,
      <<BodySpan(<<"x">>)>>,
      <<BodySpan(<<"u2022", " ", "a">>), BoldSpan(<<"y">>)>> }

ListBlocks ==
    {bc \in SeqsUpTo(ListLines, MaxLines) : _detect_block_type(bc) = "list"}

InitHtmlList ==
    /\ pc = "loop"
    /\ block_content \in ListBlocks
    /\ line_no = 1
    /\ html_lines = HtmlListStart.html_lines
    /\ list_open = HtmlListStart.list_open
    /\ current_list_type = HtmlListStart.current_list_type
    /\ IdleExcept({"htmllist"})

HtmlListLocals ==
    [html_lines |-> html_lines, current_list_type |-> current_list_type,
     list_open |-> list_open]

HtmlListNextLine ==
    /\ pc = "loop"
    /\ line_no <= Len(block_content)
    /\ LET st == HtmlListLine(HtmlListLocals, block_content[line_no])
       IN  /\ html_lines' = st.html_lines
           /\ list_open' = st.list_open
           /\ current_list_type' = st.current_list_type
    /\ line_no' = line_no + 1
    /\ UNCHANGED <<pc, block_content>>
    /\ UnchangedExcept({"htmllist"})

HtmlListReturn ==
    /\ pc = "loop"
    /\ line_no > Len(block_content)
    /\ html_lines' = HtmlListEnd(HtmlListLocals)
    /\ pc' = "return"
    /\ UNCHANGED <<block_content, line_no, list_open, current_list_type>>
    /\ UnchangedExcept({"htmllist"})

NextHtmlList == HtmlListNextLine \/ HtmlListReturn

SpecHtmlList == InitHtmlList /\ [][NextHtmlList]_vars

(***************************************************************************)
(* Block Assembler: PDFFormatter(pdf_path, layout_mode) followed by        *)
(* extract_with_formatting(), one page of the loop per step.               *)
(***************************************************************************)
\* a bold 22pt title; lies across the first table region
RawHeading ==
    [has_lines |-> TRUE, bbox |-> <<0, 0, 100, 20>>,
     lines |-> <<[bbox |-> <<0, 0, 100, 20>>,
                  spans |-> <<[text |-> <<"T">>, flags |-> 16, size |-> 22 * Scale,
                               font |-> "Helvetica-Bold"]>>]>>]

\* a bullet item and a plain line; its lower edge is the second table's upper edge
RawList ==
    [has_lines |-> TRUE, bbox |-> <<0, 60, 100, 80>>,
     lines |-> <<[bbox |-> <<0, 60, 50, 70>>,
                  spans |-> <<[text |-> <<"-", " ", "b">>, flags |-> 0,
                               size |-> 10 * Scale, font |-> "Helvetica"]>>],
                 [bbox |-> <<0, 70, 50, 80>>,
                  spans |-> <<[text |-> <<"x">>, flags |-> 0,
                               size |-> 10 * Scale, font |-> "Helvetica"]>>]>>]

\* an italic paragraph with a blank span and a blank line; clear of both tables
RawParagraph ==
    [has_lines |-> TRUE, bbox |-> <<0, 130, 100, 150>>,
     lines |-> <<[bbox |-> <<60, 130, 100, 140>>,
                  spans |-> <<[text |-> <<" ">>, flags |-> 2, size |-> 10 * Scale,
                               font |-> "Helvetica-Oblique"],
                              [text |-> <<"h", "i", " ">>, flags |-> 2,
                               size |-> 10 * Scale, font |-> "Helvetica-Oblique"]>>],
                 [bbox |-> <<0, 140, 100, 150>>,
                  spans |-> <<[text |-> <<" ", " ">>, flags |-> 2, size |-> 10 * Scale,
                               font |-> "Helvetica-Oblique"]>>]>>]

\* an image block: it has no "lines" key
RawImage == [has_lines |-> FALSE, bbox |-> <<0, 0, 200, 200>>, lines |-> <<>>]

RawBlocks == <<RawHeading, RawImage, RawList, RawParagraph>>

\* the raw block lists drawn for a page: RawBlocks with any blocks left out
BlockLists ==
    {SelectSeq(RawBlocks, LAMBDA b : b \in keep) :
        keep \in SUBSET {RawBlocks[i] : i \in 1 .. Len(RawBlocks)}}

Table1 ==
    [bbox |-> <<0, 10, 100, 50>>,
     data |-> << << <<(<<"N">>)>>, <<(<<"A">>)>> >>,
                 << <<(<<"a">>)>>, <<(<<"3">>)>> >> >>]
Table2 ==
    [bbox |-> <<0, 80, 100, 120>>,
     data |-> << << <<>>, <<>> >>, << <<(<<"b">>)>>, <<>> >> >>]

TableLists == {<<>>, <<Table1>>, <<Table1, Table2>>}

DetectionErrors(found) ==
    {[in |-> "none", table |-> 0], [in |-> "find_tables", table |-> 0]}
        \cup {[in |-> "extract", table |-> k] : k \in 1 .. Len(found)}

\* what the page's PyMuPDF calls can return; find_tables is called in
\* preserve mode only
Pages(mode) ==
    {[width |-> PageWidth, blocks |-> bl, found |-> f, error |-> e] :
        bl \in BlockLists,
        f \in (IF mode = "preserve" THEN TableLists ELSE {<<>>}),
        e \in (IF mode = "preserve"
                THEN {[in |-> "none", table |-> 0], [in |-> "find_tables", table |-> 0],
                      [in |-> "extract", table |-> 1], [in |-> "extract", table |-> 2]}
                ELSE {[in |-> "none", table |-> 0]})}

\* src/app.py:93-96
InitExtract ==
    /\ pc = "pages"
    /\ layout_mode \in {"preserve", "clean"}
    /\ num_pages \in 0 .. MaxPages
    /\ page_num = 0
    /\ page = NoPage
    /\ all_blocks = <<>>
    /\ page_end = <<>>
    /\ formatted_content = <<>>
    /\ doc_open = TRUE
    /\ IdleExcept({"extract"})

\* src/app.py:102-195, one pass of the loop over the pages
ExtractPage ==
    /\ pc = "pages"
    /\ page_num < num_pages
    /\ \E pg \in Pages(layout_mode) :
          /\ pg.error \in DetectionErrors(pg.found)
          /\ page' = pg
          /\ all_blocks' = all_blocks \o PageBlocks(pg, layout_mode)
    /\ page_end' = Append(page_end, Len(all_blocks'))
    /\ page_num' = page_num + 1
    /\ UNCHANGED <<pc, layout_mode, num_pages, formatted_content, doc_open>>
    /\ UnchangedExcept({"extract"})

\* src/app.py:197-199
ExtractReturn ==
    /\ pc = "pages"
    /\ page_num = num_pages
    /\ formatted_content' = all_blocks
    /\ doc_open' = FALSE
    /\ pc' = "extracted"
    /\ UNCHANGED <<layout_mode, num_pages, page_num, page, all_blocks, page_end>>
    /\ UnchangedExcept({"extract"})

NextExtract == ExtractPage \/ ExtractReturn

SpecExtract == InitExtract /\ [][NextExtract]_vars

(***************************************************************************)
(* Renderers: PDFFormatter(pdf_path, layout_mode), extract_with_formatting *)
(* and then calls of to_html, to_markdown and to_docx in any order, as     *)
(* /upload, /extract-text and /batch-convert make them.  The renderers run *)
(* one block of formatted_content per step.                                *)
(***************************************************************************)
\* a bold 22pt title at the left of its block
RTitle ==
    [has_lines |-> TRUE, bbox |-> <<0, 0, 200, 30>>,
     lines |-> <<[bbox |-> <<0, 0, 60, 30>>,
                  spans |-> <<[text |-> <<"T", "i", "t", "l", "e">>, flags |-> 16,
                               size |-> 22 * Scale, font |-> "Helvetica-Bold"]>>]>>]

\* a centered bold 16pt heading of two lines whose text starts like a numbered item
RCentered ==
    [has_lines |-> TRUE, bbox |-> <<0, 40, 200, 60>>,
     lines |-> <<[bbox |-> <<50, 40, 150, 50>>,
                  spans |-> <<[text |-> <<"1", ".", " ", "A">>, flags |-> 16,
                               size |-> 16 * Scale, font |-> "Helvetica-Bold"]>>],
                 [bbox |-> <<50, 50, 150, 60>>,
                  spans |-> <<[text |-> <<"B">>, flags |-> 16,
                               size |-> 16 * Scale, font |-> "Helvetica-Bold"]>>]>>]

\* a plain one-line paragraph at the left of its block
RHello ==
    [has_lines |-> TRUE, bbox |-> <<0, 70, 200, 80>>,
     lines |-> <<[bbox |-> <<0, 70, 90, 80>>,
                  spans |-> <<[text |-> <<"H", "e", "l", "l", "o", " ",
                                          "w", "o", "r", "l", "d", ".">>,
                               flags |-> 0, size |-> 10 * Scale,
                               font |-> "Helvetica"]>>]>>]

\* a right-aligned paragraph of two lines with every combination of bold and italic
RPara ==
    [has_lines |-> TRUE, bbox |-> <<0, 90, 200, 110>>,
     lines |-> <<[bbox |-> <<120, 90, 200, 100>>,
                  spans |-> <<[text |-> <<"a">>, flags |-> 18, size |-> 10 * Scale,
                               font |-> "Helvetica-BoldOblique"],
                              [text |-> <<"b">>, flags |-> 16, size |-> 10 * Scale,
                               font |-> "Helvetica-Bold"]>>],
                 [bbox |-> <<120, 100, 200, 110>>,
                  spans |-> <<[text |-> <<"c">>, flags |-> 2, size |-> 10 * Scale,
                               font |-> "Helvetica-Oblique"],
                              [text |-> <<"d">>, flags |-> 0, size |-> 10 * Scale,
                               font |-> "Helvetica"]>>]>>]

\* a bullet item with a bold trailing span, an italic numbered item, a plain line
RList ==
    [has_lines |-> TRUE, bbox |-> <<0, 120, 200, 150>>,
     lines |-> <<[bbox |-> <<0, 120, 60, 130>>,
                  spans |-> <<[text |-> <<"u2022", " ", "a">>, flags |-> 0,
                               size |-> 10 * Scale, font |-> "Helvetica"],
                              [text |-> <<"y">>, flags |-> 16, size |-> 10 * Scale,
                               font |-> "Helvetica-Bold"]>>],
                 [bbox |-> <<0, 130, 60, 140>>,
                  spans |-> <<[text |-> <<"1", ".", " ", "c">>, flags |-> 2,
                               size |-> 10 * Scale, font |-> "Helvetica-Oblique"]>>],
                 [bbox |-> <<0, 140, 60, 150>>,
                  spans |-> <<[text |-> <<"x">>, flags |-> 0, size |-> 10 * Scale,
                               font |-> "Helvetica"]>>]>>]

\* [["Name", "Age"], ["Ann", "30"]]
TName ==
    [bbox |-> <<0, 160, 200, 180>>,
     data |-> << << <<(<<"N", "a", "m", "e">>)>>, <<(<<"A", "g", "e">>)>> >>,
                 << <<(<<"A", "n", "n">>)>>, <<(<<"3", "0">>)>> >> >>]

\* [[None, ""], ["b", " "]]: no cell of the first row is a non-empty string
TBlank ==
    [bbox |-> <<0, 190, 200, 210>>,
     data |-> << << <<>>, <<(<<>>)>> >>,
                 << <<(<<"b">>)>>, <<(<<" ">>)>> >> >>]

\* the pages drawn: the raw blocks and the tables find_tables() yields
RenderPageShapes ==
    { [blocks |-> <<RTitle, RHello>>, found |-> <<>>],
      [blocks |-> <<RCentered, RPara>>, found |-> <<TName>>],
      [blocks |-> <<RList>>, found |-> <<TBlank>>],
      [blocks |-> <<RTitle, RList, RPara>>, found |-> <<TName, TBlank>>],
      [blocks |-> <<RCentered>>, found |-> <<>>],
      [blocks |-> <<>>, found |-> <<>>] }

RenderPages(mode) ==
    {[width |-> PageWidth, blocks |-> sh.blocks,
      found |-> IF mode = "preserve" THEN sh.found ELSE <<>>,
      error |-> [in |-> "none", table |-> 0]] : sh \in RenderPageShapes}

\* src/app.py:93-96
InitRender ==
    /\ pc = "pages"
    /\ layout_mode \in {"preserve", "clean"}
    /\ num_pages \in 0 .. MaxPages
    /\ page_num = 0
    /\ page = NoPage
    /\ all_blocks = <<>>
    /\ page_end = <<>>
    /\ formatted_content = <<>>
    /\ doc_open = TRUE
    /\ RenderIdle
    /\ IdleExcept({"extract", "render"})

\* src/app.py:102-195, one pass of the loop over the pages
ExtractDocumentPage ==
    /\ pc = "pages"
    /\ page_num < num_pages
    /\ \E pg \in RenderPages(layout_mode) :
          /\ page' = pg
          /\ all_blocks' = all_blocks \o PageBlocks(pg, layout_mode)
    /\ page_end' = Append(page_end, Len(all_blocks'))
    /\ page_num' = page_num + 1
    /\ UNCHANGED <<pc, layout_mode, num_pages, formatted_content, doc_open>>
    /\ UnchangedExcept({"extract"})

\* src/app.py:322-329
ToHtml ==
    /\ pc = "extracted"
    /\ calls < MaxCalls
    /\ calls' = calls + 1
    /\ IF layout_mode = "clean"
       THEN /\ rendered' = [rendered EXCEPT !.html = <<_to_html_clean(formatted_content)>>]
            /\ UNCHANGED <<pc, block_no, html_content>>
       ELSE /\ html_content' = HtmlHead
            /\ block_no' = 1
            /\ pc' = "to_html"
            /\ UNCHANGED rendered
    /\ UNCHANGED <<markdown_content, document>>
    /\ UNCHANGED extractVars
    /\ UnchangedExcept({"extract", "render"})

\* src/app.py:331-343, one pass of the loop
ToHtmlBlock ==
    /\ pc = "to_html"
    /\ block_no <= Len(formatted_content)
    /\ html_content' = html_content \o HtmlBlock(formatted_content[block_no])
    /\ block_no' = block_no + 1
    /\ UNCHANGED <<pc, calls, markdown_content, document, rendered>>
    /\ UNCHANGED extractVars
    /\ UnchangedExcept({"extract", "render"})

\* src/app.py:345-346
ToHtmlReturn ==
    /\ pc = "to_html"
    /\ block_no > Len(formatted_content)
    /\ rendered' = [rendered EXCEPT !.html = <<Join(<<"\n">>, html_content \o HtmlFoot)>>]
    /\ html_content' = <<>>
    /\ block_no' = 0
    /\ pc' = "extracted"
    /\ UNCHANGED <<calls, markdown_content, document>>
    /\ UNCHANGED extractVars
    /\ UnchangedExcept({"extract", "render"})

\* src/app.py:485-489
ToMarkdown ==
    /\ pc = "extracted"
    /\ calls < MaxCalls
    /\ calls' = calls + 1
    /\ IF layout_mode = "clean"
       THEN /\ rendered' =
                  [rendered EXCEPT !.markdown = <<_to_markdown_clean(formatted_content)>>]
            /\ UNCHANGED <<pc, block_no, markdown_content>>
       ELSE /\ markdown_content' = <<>>
            /\ block_no' = 1
            /\ pc' = "to_markdown"
            /\ UNCHANGED rendered
    /\ UNCHANGED <<html_content, document>>
    /\ UNCHANGED extractVars
    /\ UnchangedExcept({"extract", "render"})

\* a list block whose list-item lines have lost their markers
MarkersStripped(block) ==
    IF block.type # "list" THEN block
    ELSE [block EXCEPT !.content =
             [i \in 1 .. Len(block.content) |->
                 IF block.content[i][1].is_list
                 THEN [block.content[i] EXCEPT ![1].text = StripMarker(@)]
                 ELSE block.content[i]]]

\* src/app.py:491-503, one pass of the loop
ToMarkdownStripsMarkersInPlace ==
    /\ pc = "to_markdown"
    /\ block_no <= Len(formatted_content)
    /\ markdown_content' = markdown_content \o MarkdownBlock(formatted_content[block_no])
    /\ block_no' = block_no + 1
    /\ formatted_content' =
          [formatted_content EXCEPT ![block_no] = MarkersStripped(@)]
    /\ UNCHANGED <<pc, calls, html_content, document, rendered>>
    /\ UNCHANGED <<layout_mode, num_pages, page_num, page, all_blocks, page_end, doc_open>>
    /\ UnchangedExcept({"extract", "render"})

ToMarkdownBlock ==
    /\ pc = "to_markdown"
    /\ block_no <= Len(formatted_content)
    /\ markdown_content' = markdown_content \o MarkdownBlock(formatted_content[block_no])
    /\ block_no' = block_no + 1
    /\ UNCHANGED <<pc, calls, html_content, document, rendered>>
    /\ UNCHANGED extractVars
    /\ UnchangedExcept({"extract", "render"})

\* src/app.py:505
ToMarkdownReturn ==
    /\ pc = "to_markdown"
    /\ block_no > Len(formatted_content)
    /\ rendered' = [rendered EXCEPT !.markdown = <<MarkdownJoin(markdown_content)>>]
    /\ markdown_content' = <<>>
    /\ block_no' = 0
    /\ pc' = "extracted"
    /\ UNCHANGED <<calls, html_content, document>>
    /\ UNCHANGED extractVars
    /\ UnchangedExcept({"extract", "render"})

\* src/app.py:650-654
ToDocx ==
    /\ pc = "extracted"
    /\ calls < MaxCalls
    /\ calls' = calls + 1
    /\ IF layout_mode = "clean"
       THEN /\ rendered' = [rendered EXCEPT !.docx = <<_to_docx_clean(formatted_content)>>]
            /\ UNCHANGED <<pc, block_no, document>>
       ELSE /\ document' = <<>>
            /\ block_no' = 1
            /\ pc' = "to_docx"
            /\ UNCHANGED rendered
    /\ UNCHANGED <<html_content, markdown_content>>
    /\ UNCHANGED extractVars
    /\ UnchangedExcept({"extract", "render"})

\* src/app.py:656-668, one pass of the loop
ToDocxBlock ==
    /\ pc = "to_docx"
    /\ block_no <= Len(formatted_content)
    /\ document' = document \o DocxBlock(formatted_content[block_no])
    /\ block_no' = block_no + 1
    /\ UNCHANGED <<pc, calls, html_content, markdown_content, rendered>>
    /\ UNCHANGED extractVars
    /\ UnchangedExcept({"extract", "render"})

\* src/app.py:670
ToDocxReturn ==
    /\ pc = "to_docx"
    /\ block_no > Len(formatted_content)
    /\ rendered' = [rendered EXCEPT !.docx = <<document>>]
    /\ document' = <<>>
    /\ block_no' = 0
    /\ pc' = "extracted"
    /\ UNCHANGED <<calls, html_content, markdown_content>>
    /\ UNCHANGED extractVars
    /\ UnchangedExcept({"extract", "render"})

NextRender ==
    \/ ExtractDocumentPage
    \/ ExtractReturn
    \/ ToHtml
    \/ ToHtmlBlock
    \/ ToHtmlReturn
    \/ ToMarkdown
    \/ ToMarkdownBlock
    \/ ToMarkdownReturn
    \/ ToDocx
    \/ ToDocxBlock
    \/ ToDocxReturn

SpecRender == InitRender /\ [][NextRender]_vars

(***************************************************************************)
(* Paragraph paths: one raw text block of body-size spans is classified    *)
(* as extract_with_formatting does and rendered by the paragraph path of   *)
(* to_html, to_markdown and to_docx, and a one-page document holding the   *)
(* block is rendered by the serverless handler.                            *)
(***************************************************************************)
FontFlags == {0, 2, 16, 18}

ParaSpan(j, flags) ==
    [text |-> <<(<<"a", "b", "c", "d">>)[j]>>, flags |-> flags, size |-> 10 * Scale,
     font |-> "Helvetica"]

\* the span lists drawn for the first line: 1 .. MaxSpans spans of any flags
ParaSpanLists ==
    UNION {{[j \in 1 .. n |-> ParaSpan(j, fl[j])] : fl \in [1 .. n -> FontFlags]} :
              n \in 1 .. MaxSpans}

\* a bold then italic second line
ParaSecondLine ==
    [bbox |-> <<0, 10, 50, 20>>, spans |-> <<ParaSpan(1, 16), ParaSpan(2, 2)>>]

ParaBlocks ==
    {[has_lines |-> TRUE, bbox |-> <<0, 0, 200, 20>>,
      lines |-> <<[bbox |-> <<0, 0, 50, 10>>, spans |-> sl]>> \o more] :
        sl \in ParaSpanLists, more \in {<<>>, <<ParaSecondLine>>}}

InitParagraph ==
    /\ pc = "call"
    /\ raw_block \in ParaBlocks
    /\ emitted = NotEmitted
    /\ IdleExcept({"paragraph"})

\* src/app.py:186-191, 343
ParagraphToHtml ==
    /\ pc = "call"
    /\ emitted.html = <<>>
    /\ emitted' = [emitted EXCEPT
                      !.html = <<_block_to_html_paragraph(BlockContent(raw_block, PageWidth))>>]
    /\ UNCHANGED <<pc, raw_block>>
    /\ UnchangedExcept({"paragraph"})

\* src/app.py:186-191, 503
ParagraphToMarkdown ==
    /\ pc = "call"
    /\ emitted.markdown = <<>>
    /\ emitted' = [emitted EXCEPT
                      !.markdown =
                          <<_block_to_markdown_paragraph(BlockContent(raw_block, PageWidth))>>]
    /\ UNCHANGED <<pc, raw_block>>
    /\ UnchangedExcept({"paragraph"})

\* src/app.py:186-191, 668
ParagraphToDocx ==
    /\ pc = "call"
    /\ emitted.docx = <<>>
    /\ emitted' = [emitted EXCEPT
                      !.docx = <<_add_paragraph_to_docx(BlockContent(raw_block, PageWidth))>>]
    /\ UNCHANGED <<pc, raw_block>>
    /\ UnchangedExcept({"paragraph"})

\* src/api/convert.py:44-83
ServerlessHtml ==
    /\ pc = "call"
    /\ emitted.serverless = <<>>
    /\ emitted' = [emitted EXCEPT
                      !.serverless = <<HandlerHtml(<<[blocks |-> <<raw_block>>]>>)>>]
    /\ UNCHANGED <<pc, raw_block>>
    /\ UnchangedExcept({"paragraph"})

NextParagraph ==
    \/ ParagraphToHtml
    \/ ParagraphToMarkdown
    \/ ParagraphToDocx
    \/ ServerlessHtml

SpecParagraph == InitParagraph /\ [][NextParagraph]_vars

(***************************************************************************)
(* /batch-convert (src/app.py:846-1048): one request.  A file is its       *)
(* filename without the extension ("" when the part has no filename); the  *)
(* content of the outputs is not carried, only which output files exist.   *)
(***************************************************************************)
FileNames == {"", "a", "b"}
FormatNames == {"txt", "html", "markdown", "docx", "rtf"}
KnownFormats == {"txt", "html", "markdown", "docx"}

\* src/app.py:39-41
get_daily_limit(logged) == IF logged THEN LOGGED_IN_DAILY_LIMIT ELSE GUEST_DAILY_LIMIT

\* src/app.py:43-72, the count one call leaves (same day)
check_and_update_exports(count, limit) ==
    IF count >= limit THEN count ELSE count + 1

\* src/app.py:1017-1018
RECURSIVE UpdateExports(_, _, _)
UpdateExports(count, limit, n) ==
    IF n = 0 THEN count
    ELSE UpdateExports(check_and_update_exports(count, limit), limit, n - 1)

\* src/app.py:856
FileCount(files) == Len(SelectSeq(files, LAMBDA f : f # ""))

InitBatch ==
    /\ pc = "request"
    /\ logged_in \in BOOLEAN
    /\ export_count \in {0, get_daily_limit(logged_in) - 1, get_daily_limit(logged_in)}
    /\ pdf_files = <<>>
    /\ formats = <<>>
    /\ file_index = 0
    /\ format_index = 0
    /\ failed = {}
    /\ written = {}
    /\ converted_files = <<>>
    /\ zip_names = <<>>
    /\ response = "none"
    /\ IdleExcept({"batch"})

\* src/app.py:850-900: the limit check, the parse of formats, the check for
\* an empty request
BatchRequest ==
    /\ pc = "request"
    /\ \E files \in SeqsUpTo(FileNames, MaxFiles),
          requested \in SeqsUpTo(FormatNames, MaxFormats),
          parsed \in BOOLEAN :
          /\ pdf_files' = files
          /\ IF export_count + FileCount(files) > get_daily_limit(logged_in)
             THEN /\ response' = "429"
                  /\ pc' = "responded"
                  /\ UNCHANGED <<formats, file_index>>
             ELSE /\ formats' = IF parsed THEN requested ELSE <<"txt">>
                  /\ IF files = <<>>
                     THEN /\ response' = "400"
                          /\ pc' = "responded"
                          /\ UNCHANGED file_index
                     ELSE /\ file_index' = 1
                          /\ pc' = "files"
                          /\ UNCHANGED response
    /\ UNCHANGED <<logged_in, export_count, format_index, failed, written,
                   converted_files, zip_names>>
    /\ UnchangedExcept({"batch"})

\* src/app.py:904-906
BatchSkipFile ==
    /\ pc = "files"
    /\ file_index <= Len(pdf_files)
    /\ pdf_files[file_index] = ""
    /\ file_index' = file_index + 1
    /\ UNCHANGED <<pc, logged_in, export_count, pdf_files, formats, format_index,
                   failed, written, converted_files, zip_names, response>>
    /\ UnchangedExcept({"batch"})

\* src/app.py:911-920 and 976-979: the file is saved and extracted; an error
\* raised by the extraction skips the file
BatchExtract ==
    /\ pc = "files"
    /\ file_index <= Len(pdf_files)
    /\ pdf_files[file_index] # ""
    /\ \E raised \in BOOLEAN :
          IF raised
          THEN /\ failed' = failed \cup {<<file_index, 0>>}
               /\ file_index' = file_index + 1
               /\ UNCHANGED <<pc, format_index>>
          ELSE /\ format_index' = 1
               /\ pc' = "formats"
               /\ UNCHANGED <<file_index, failed>>
    /\ UNCHANGED <<logged_in, export_count, pdf_files, formats, written,
                   converted_files, zip_names, response>>
    /\ UnchangedExcept({"batch"})

\* src/app.py:923-979, one pass of the loop over formats: the output of a
\* known format is produced and written, an entry is appended for every
\* format; an error raised on the way leaves the loop over formats
BatchConvert ==
    /\ pc = "formats"
    /\ format_index <= Len(formats)
    /\ LET format_type == formats[format_index]
           original_name == pdf_files[file_index]
       IN  \E raised \in {r \in BOOLEAN : r => format_type \in KnownFormats} :
              IF raised
              THEN /\ failed' = failed \cup {<<file_index, format_index>>}
                   /\ file_index' = file_index + 1
                   /\ pc' = "files"
                   /\ UNCHANGED <<format_index, written, converted_files>>
              ELSE /\ written' = IF format_type \in KnownFormats
                                 THEN written \cup {<<format_type, original_name>>}
                                 ELSE written
                   /\ converted_files' =
                         Append(converted_files, <<format_type, original_name>>)
                   /\ format_index' = format_index + 1
                   /\ UNCHANGED <<pc, file_index, failed>>
    /\ UNCHANGED <<logged_in, export_count, pdf_files, formats, zip_names, response>>
    /\ UnchangedExcept({"batch"})

\* src/app.py:923, the loop over formats is exhausted
BatchNextFile ==
    /\ pc = "formats"
    /\ format_index > Len(formats)
    /\ file_index' = file_index + 1
    /\ pc' = "files"
    /\ UNCHANGED <<logged_in, export_count, pdf_files, formats, format_index,
                   failed, written, converted_files, zip_names, response>>
    /\ UnchangedExcept({"batch"})

\* src/app.py:981-1048: the ZIP is written from converted_files (zipf.write
\* raises for an entry whose file does not exist), the export count is
\* updated once per distinct name, the ZIP is sent
BatchRespond ==
    /\ pc = "files"
    /\ file_index > Len(pdf_files)
    /\ IF converted_files = <<>>
       THEN /\ response' = "400"
            /\ UNCHANGED <<zip_names, export_count>>
       ELSE IF \E k \in 1 .. Len(converted_files) : converted_files[k] \notin written
       THEN /\ response' = "500"
            /\ UNCHANGED <<zip_names, export_count>>
       ELSE /\ zip_names' = Append(converted_files, <<"README", "txt">>)
            /\ export_count' =
                  UpdateExports(export_count, get_daily_limit(logged_in),
                                Cardinality({converted_files[k][2] :
                                                k \in 1 .. Len(converted_files)}))
            /\ response' = "200"
    /\ pc' = "responded"
    /\ UNCHANGED <<logged_in, pdf_files, formats, file_index, format_index,
                   failed, written, converted_files>>
    /\ UnchangedExcept({"batch"})

NextBatch ==
    \/ BatchRequest
    \/ BatchSkipFile
    \/ BatchExtract
    \/ BatchConvert
    \/ BatchNextFile
    \/ BatchRespond

SpecBatch == InitBatch /\ [][NextBatch]_vars

(***************************************************************************)
(* Export tracking (src/app.py:21-90) under the endpoints that use it:     *)
(* /login, /logout, /status, /upload and /batch-convert served by          *)
(* concurrent threads for one client, one thread to a request.  A session *)
(* is the copy of the client's cookie the request came with; the cookie is *)
(* replaced when the response of a request that modified its session       *)
(* arrives.  A batch is the number of its named files; what is converted   *)
(* is drawn.                                                               *)
(***************************************************************************)
is_logged_in(s) == s.user_id # "None"

\* src/app.py:27-35: the session after the call, and the key returned
SessionWithId(s, issued) ==
    IF is_logged_in(s) \/ s.session_id # "None" THEN s
    ELSE [s EXCEPT !.session_id = Sids[issued + 1]]

get_user_key(s) ==
    IF is_logged_in(s) THEN <<"user", s.user_id>> ELSE GuestKey(s.session_id)

\* whether get_user_key has to draw a new session id
NeedsId(s) == ~is_logged_in(s) /\ s.session_id = "None"

\* src/app.py:76-90: the count get_export_status returns
get_export_status(tracking, user_key, today) ==
    IF ~tracking[user_key].present THEN 0
    ELSE IF today > tracking[user_key].date THEN 0
    ELSE tracking[user_key].count

\* export_tracking as get_export_status creates an entry for an unknown key
TrackingAfterStatusCreates(tracking, user_key, instant) ==
    IF tracking[user_key].present THEN tracking
    ELSE [tracking EXCEPT ![user_key] =
             [present |-> TRUE, count |-> 0, date |-> Today(instant),
              last_export |-> instant]]

\* src/app.py:76-90: export_tracking as get_export_status leaves it
TrackingAfterStatus(tracking, user_key, instant) == tracking

\* src/app.py:45-68 without the reset of a new day
EntryCheckedNoReset(entry, instant) ==
    IF ~entry.present
    THEN [present |-> TRUE, count |-> 0, date |-> Today(instant), last_export |-> instant]
    ELSE entry

\* src/app.py:45-68 with last_export written on every call
EntryCheckedStamped(entry, instant) ==
    IF ~entry.present
    THEN [present |-> TRUE, count |-> 0, date |-> Today(instant), last_export |-> instant]
    ELSE IF Today(instant) > entry.date
    THEN [entry EXCEPT !.count = 0, !.date = Today(instant), !.last_export = instant]
    ELSE [entry EXCEPT !.last_export = instant]

\* src/app.py:45-68: the entry of the key after it is created when missing
\* and reset when its date is before today
EntryChecked(entry, instant) ==
    IF ~entry.present
    THEN [present |-> TRUE, count |-> 0, date |-> Today(instant), last_export |-> instant]
    ELSE IF Today(instant) > entry.date
    THEN [entry EXCEPT !.count = 0, !.date = Today(instant)]
    ELSE entry

\* src/app.py:70-72
EntryIncremented(entry, instant) ==
    [entry EXCEPT !.count = @ + 1, !.last_export = instant]

\* the cookie after the response of a request whose session is s
CookieAfter(s, modified) == IF modified THEN s ELSE cookie

\* thread t receives a request: it is the first idle thread
Received(t) ==
    /\ threads[t].pc = "idle"
    /\ \A n \in 1 .. Len(ThreadOrder) :
          threads[ThreadOrder[n]].pc = "idle" =>
              \E m \in 1 .. n : ThreadOrder[m] = t

\* the client is new, a returning guest or a logged-in user; the entry of
\* its key is missing or holds a count close to the limit of the key
InitExports ==
    /\ pc = "serving"
    /\ now = 0
    /\ threads = [t \in Threads |-> IdleThread]
    /\ cookie \in {NoSession,
                   [user_id |-> "None", session_id |-> Sids[1]],
                   [user_id |-> "u", session_id |-> "None"]}
    /\ uuids = IF cookie.session_id = "None" THEN 0 ELSE 1
    /\ \E known \in {e \in BOOLEAN : e => cookie # NoSession}, full \in BOOLEAN :
          export_tracking =
             [k \in Keys |->
                 IF known /\ k = get_user_key(cookie)
                 THEN [present |-> TRUE,
                       count |-> get_daily_limit(is_logged_in(cookie))
                                    - (IF full THEN 0 ELSE 1),
                       date |-> 0, last_export |-> 0]
                 ELSE NoEntry]
    /\ delivered = [k \in Keys |-> [d \in Days |->
                       IF d = 0 THEN export_tracking[k].count ELSE 0]]
    /\ IdleExcept({"exports"})

\* the clock advances
Tick ==
    /\ now < MaxNow
    /\ now' = now + 1
    /\ UNCHANGED <<pc, export_tracking, cookie, uuids, threads, delivered>>
    /\ UnchangedExcept({"exports"})

\* src/app.py:793-810
Login(t) ==
    /\ Received(t)
    /\ \E valid \in BOOLEAN :
          threads' = [threads EXCEPT ![t] =
              [IdleThread EXCEPT
                  !.pc = "responded", !.handler = "login",
                  !.session = IF valid THEN [cookie EXCEPT !.user_id = "u"] ELSE cookie,
                  !.modified = valid,
                  !.response = IF valid THEN "200" ELSE "400"]]
    /\ UNCHANGED <<pc, export_tracking, now, cookie, uuids, delivered>>
    /\ UnchangedExcept({"exports"})

\* src/app.py:812-821
Logout(t) ==
    /\ Received(t)
    /\ threads' = [threads EXCEPT ![t] =
          [IdleThread EXCEPT
              !.pc = "responded", !.handler = "logout",
              !.session = [cookie EXCEPT !.user_id = "None"],
              !.modified = TRUE, !.response = "200"]]
    /\ UNCHANGED <<pc, export_tracking, now, cookie, uuids, delivered>>
    /\ UnchangedExcept({"exports"})

\* src/app.py:823-836
UserStatus(t) ==
    /\ Received(t)
    /\ NeedsId(cookie) => uuids < Len(Sids)
    /\ LET s == SessionWithId(cookie, uuids)
           user_key == get_user_key(s)
       IN  /\ uuids' = IF NeedsId(cookie) THEN uuids + 1 ELSE uuids
           /\ export_tracking' = TrackingAfterStatus(export_tracking, user_key, now)
           /\ threads' = [threads EXCEPT ![t] =
                 [IdleThread EXCEPT
                     !.pc = "responded", !.handler = "status", !.session = s,
                     !.modified = NeedsId(cookie), !.user_key = user_key, !.now = now,
                     !.current_exports =
                         get_export_status(export_tracking, user_key, Today(now)),
                     !.response = "200"]]
    /\ UNCHANGED <<pc, now, cookie, delivered>>
    /\ UnchangedExcept({"exports"})

Delivered(user_key, day, n) ==
    [delivered EXCEPT ![user_key][day] = @ + n]

\* src/app.py:1117-1135 with 45-68: the key is made, the entry is created or
\* reset, the count is compared with the limit
UploadCheck(t) ==
    /\ Received(t)
    /\ NeedsId(cookie) => uuids < Len(Sids)
    /\ LET s == SessionWithId(cookie, uuids)
           user_key == get_user_key(s)
           user_data == EntryChecked(export_tracking[user_key], now)
           limit == get_daily_limit(is_logged_in(s))
           serving == [IdleThread EXCEPT
                          !.handler = "upload", !.session = s,
                          !.modified = NeedsId(cookie), !.user_key = user_key,
                          !.now = now, !.day = Today(now), !.file_count = 1,
                          !.current_exports = user_data.count]
       IN  /\ uuids' = IF NeedsId(cookie) THEN uuids + 1 ELSE uuids
           /\ export_tracking' = [export_tracking EXCEPT ![user_key] = user_data]
           /\ IF user_data.count >= limit
              THEN threads' = [threads EXCEPT ![t] =
                                  [serving EXCEPT !.pc = "responded", !.response = "429"]]
              ELSE threads' = [threads EXCEPT ![t] =
                                  [serving EXCEPT !.pc = "upload_increment"]]
    /\ UNCHANGED <<pc, now, cookie, delivered>>
    /\ UnchangedExcept({"exports"})

\* src/app.py:70-74
UploadIncrement(t) ==
    /\ threads[t].pc = "upload_increment"
    /\ export_tracking' =
          [export_tracking EXCEPT ![threads[t].user_key] =
              EntryIncremented(@, threads[t].now)]
    /\ threads' = [threads EXCEPT ![t].pc = "upload_convert"]
    /\ UNCHANGED <<pc, now, cookie, uuids, delivered>>
    /\ UnchangedExcept({"exports"})

\* src/app.py:1137-1214: the file is saved and converted and the output is
\* sent; an error raised on the way is answered with 500
UploadConvert(t) ==
    /\ threads[t].pc = "upload_convert"
    /\ \E raised \in BOOLEAN :
          /\ threads' = [threads EXCEPT
                ![t].pc = "responded", ![t].saved = 1,
                ![t].converted = IF raised THEN 0 ELSE 1,
                ![t].response = IF raised THEN "500" ELSE "200"]
          /\ delivered' = Delivered(threads[t].user_key, threads[t].day,
                                    IF raised THEN 0 ELSE 1)
    /\ UNCHANGED <<pc, export_tracking, now, cookie, uuids>>
    /\ UnchangedExcept({"exports"})

\* src/app.py:850-880: the count of today is read and compared with the
\* limit for the named files of the request
BatchCheck(t) ==
    /\ Received(t)
    /\ NeedsId(cookie) => uuids < Len(Sids)
    /\ \E file_count \in 0 .. MaxFiles :
          LET s == SessionWithId(cookie, uuids)
              user_key == get_user_key(s)
              current_exports == get_export_status(export_tracking, user_key, Today(now))
              limit == get_daily_limit(is_logged_in(s))
              serving == [IdleThread EXCEPT
                             !.handler = "batch", !.session = s,
                             !.modified = NeedsId(cookie), !.user_key = user_key,
                             !.now = now, !.day = Today(now),
                             !.file_count = file_count,
                             !.current_exports = current_exports]
          IN  /\ uuids' = IF NeedsId(cookie) THEN uuids + 1 ELSE uuids
              /\ export_tracking' = TrackingAfterStatus(export_tracking, user_key, now)
              /\ IF current_exports + file_count > limit
                 THEN threads' = [threads EXCEPT ![t] =
                                     [serving EXCEPT !.pc = "responded",
                                                     !.response = "429"]]
                 ELSE threads' = [threads EXCEPT ![t] =
                                     [serving EXCEPT !.pc = "batch_convert"]]
    /\ UNCHANGED <<pc, now, cookie, delivered>>
    /\ UnchangedExcept({"exports"})

\* src/app.py:892-1016: the named files are saved, some of them are
\* converted, the ZIP is written; processed_file_count is the number of
\* distinct names among the converted files
BatchConvertFiles(t) ==
    /\ threads[t].pc = "batch_convert"
    /\ \E converted \in 0 .. threads[t].file_count, zipped \in BOOLEAN :
          \E processed_file_count \in
                {n \in 0 .. converted : (n = 0) <=> (converted = 0)} :
             IF converted = 0 \/ ~zipped
             THEN threads' = [threads EXCEPT
                     ![t].pc = "responded", ![t].saved = threads[t].file_count,
                     ![t].response = IF converted = 0 THEN "400" ELSE "500"]
             ELSE threads' = [threads EXCEPT
                     ![t].pc = "batch_update", ![t].saved = threads[t].file_count,
                     ![t].converted = converted, ![t].todo = processed_file_count]
    /\ UNCHANGED <<pc, export_tracking, now, cookie, uuids, delivered>>
    /\ UnchangedExcept({"exports"})

\* src/app.py:1017-1018 with 45-68: one call of check_and_update_exports up
\* to the comparison with the limit
BatchUpdateCheck(t) ==
    /\ threads[t].pc = "batch_update"
    /\ threads[t].todo > 0
    /\ LET user_data == EntryChecked(export_tracking[threads[t].user_key], now)
           limit == get_daily_limit(is_logged_in(threads[t].session))
       IN  /\ export_tracking' =
                 [export_tracking EXCEPT ![threads[t].user_key] = user_data]
           /\ IF user_data.count >= limit
              THEN threads' = [threads EXCEPT ![t].todo = @ - 1, ![t].now = now]
              ELSE threads' = [threads EXCEPT ![t].pc = "batch_increment",
                                              ![t].now = now]
    /\ UNCHANGED <<pc, now, cookie, uuids, delivered>>
    /\ UnchangedExcept({"exports"})

\* src/app.py:70-74
BatchUpdateIncrement(t) ==
    /\ threads[t].pc = "batch_increment"
    /\ export_tracking' =
          [export_tracking EXCEPT ![threads[t].user_key] =
              EntryIncremented(@, threads[t].now)]
    /\ threads' = [threads EXCEPT ![t].pc = "batch_update", ![t].todo = @ - 1]
    /\ UNCHANGED <<pc, now, cookie, uuids, delivered>>
    /\ UnchangedExcept({"exports"})

\* src/app.py:1020-1032
BatchSend(t) ==
    /\ threads[t].pc = "batch_update"
    /\ threads[t].todo = 0
    /\ threads' = [threads EXCEPT ![t].pc = "responded", ![t].response = "200"]
    /\ delivered' = Delivered(threads[t].user_key, threads[t].day, threads[t].converted)
    /\ UNCHANGED <<pc, export_tracking, now, cookie, uuids>>
    /\ UnchangedExcept({"exports"})

\* the response reaches the client: the cookie is replaced when the request
\* modified its session
Respond(t) ==
    /\ threads[t].pc = "responded"
    /\ cookie' = CookieAfter(threads[t].session, threads[t].modified)
    /\ threads' = [threads EXCEPT ![t] = [IdleThread EXCEPT !.pc = "done"]]
    /\ UNCHANGED <<pc, export_tracking, now, uuids, delivered>>
    /\ UnchangedExcept({"exports"})

NextExports ==
    \/ Tick
    \/ \E t \in Threads :
          \/ Login(t)
          \/ Logout(t)
          \/ UserStatus(t)
          \/ UploadCheck(t)
          \/ UploadIncrement(t)
          \/ UploadConvert(t)
          \/ BatchCheck(t)
          \/ BatchConvertFiles(t)
          \/ BatchUpdateCheck(t)
          \/ BatchUpdateIncrement(t)
          \/ BatchSend(t)
          \/ Respond(t)

SpecExports == InitExports /\ [][NextExports]_vars

(***************************************************************************)
(* Document handles.  One request of /upload (src/app.py:1116-1214),       *)
(* /extract-text (1050-1114), /batch-convert (846-1048) or of the          *)
(* serverless handler (src/api/convert.py:11-92), followed through the     *)
(* places where it opens, uses and closes a fitz document.  A document is  *)
(* closed only by a call of close(); what the interpreter does with an     *)
(* open document nothing refers to any more is outside the program.        *)
(***************************************************************************)
LayoutModes == {"preserve", "clean"}

\* the formats a request asks for, in the order the handler goes through
\* them: /extract-text always produces txt, html and markdown (1069-1093)
Requests ==
    [endpoint : {"upload", "handler"},
     formats : [1 .. 1 -> FormatNames],
     layout_mode : LayoutModes, files : {1}]
    \cup
    [endpoint : {"extract_text"},
     formats : {<<"txt", "html", "markdown">>},
     layout_mode : LayoutModes, files : {1}]
    \cup
    [endpoint : {"batch_convert"},
     formats : SeqsUpTo(FormatNames, MaxFormats) \ {<<>>},
     layout_mode : LayoutModes, files : 1 .. MaxFiles]

InitHandles ==
    /\ pc = "file"
    /\ request \in Requests
    /\ formatter_doc = "none"
    /\ local_doc = "none"
    /\ open_handles = 0
    /\ used_closed = FALSE
    /\ file_no = 1
    /\ format_no = 0
    /\ outcome = "none"
    /\ IdleExcept({"handles"})

\* where an exception raised while a file is processed goes: the handler of
\* src/app.py:976-979 goes on with the next file, that of 1113-1114 and of
\* src/api/convert.py:89-90 answers 500, /upload has none and fails with 500
Raised ==
    IF request.endpoint = "batch_convert"
    THEN /\ pc' = "file"
         /\ file_no' = file_no + 1
         /\ outcome' = outcome
    ELSE /\ pc' = "responded"
         /\ file_no' = file_no
         /\ outcome' = "500"

\* src/app.py:93-97, called at 918, 1065 and 1146
OpenFormatter ==
    /\ pc = "file"
    /\ request.endpoint \in {"upload", "extract_text", "batch_convert"}
    /\ file_no <= request.files
    /\ formatter_doc' = "open"
    /\ open_handles' = open_handles + 1
    /\ pc' = "formatter"
    /\ UNCHANGED <<request, local_doc, used_closed, file_no, format_no, outcome>>
    /\ UnchangedExcept({"handles"})

\* whether the handler calls extract_with_formatting on the formatter it
\* made: always at 919 and 1066, in /upload at 1151, 1179, 1187 and 1195
CallsExtract ==
    \/ request.endpoint \in {"extract_text", "batch_convert"}
    \/ /\ request.endpoint = "upload"
       /\ \/ request.formats[1] \in {"html", "markdown", "docx"}
          \/ request.formats[1] = "txt" /\ request.layout_mode = "preserve"

\* src/app.py:99-199: the pages of self.doc are read; self.doc.close() at
\* 198 is the last statement but one and is not reached when a page raises
ExtractWithFormatting ==
    /\ pc = "formatter"
    /\ CallsExtract
    /\ used_closed' = (used_closed \/ formatter_doc # "open")
    /\ \E raised \in BOOLEAN :
          IF raised
          THEN /\ Raised
               /\ UNCHANGED <<formatter_doc, open_handles, format_no>>
          ELSE /\ formatter_doc' = "closed"
               /\ open_handles' = open_handles - 1
               /\ pc' = "formats"
               /\ format_no' = 1
               /\ UNCHANGED <<file_no, outcome>>
    /\ UNCHANGED <<request, local_doc>>
    /\ UnchangedExcept({"handles"})

\* src/app.py:1148-1199: the branch /upload takes calls no
\* extract_with_formatting (txt in clean mode, or no branch at all)
SkipExtract ==
    /\ pc = "formatter"
    /\ ~CallsExtract
    /\ pc' = "formats"
    /\ format_no' = 1
    /\ UNCHANGED <<request, formatter_doc, local_doc, open_handles, used_closed,
                   file_no, outcome>>
    /\ UnchangedExcept({"handles"})

\* the format at hand is txt in clean mode: the text is read from a
\* document of the handler's own (src/app.py:946-954, 1083-1090, 1164-1172)
NeedsDoc ==
    /\ format_no <= Len(request.formats)
    /\ request.formats[format_no] = "txt"
    /\ request.layout_mode # "preserve"

\* src/app.py:948, 1085, 1166
OpenDoc ==
    /\ pc = "formats"
    /\ NeedsDoc
    /\ local_doc' = "open"
    /\ open_handles' = open_handles + 1
    /\ pc' = "doc"
    /\ UNCHANGED <<request, formatter_doc, used_closed, file_no, format_no, outcome>>
    /\ UnchangedExcept({"handles"})

\* src/app.py:950-954, 1086-1090, 1168-1172: the pages are read in a try
\* whose finally closes the document
ReadDoc ==
    /\ pc = "doc"
    /\ request.endpoint # "handler"
    /\ used_closed' = (used_closed \/ local_doc # "open")
    /\ local_doc' = "closed"
    /\ open_handles' = open_handles - 1
    /\ \E raised \in BOOLEAN :
          IF raised
          THEN Raised /\ UNCHANGED format_no
          ELSE /\ pc' = "formats"
               /\ format_no' = format_no + 1
               /\ UNCHANGED <<file_no, outcome>>
    /\ UNCHANGED <<request, formatter_doc>>
    /\ UnchangedExcept({"handles"})

\* src/app.py:931-973, 1070-1093, 1148-1199: the output of the format at
\* hand is made from formatter.formatted_content; no document is used
Convert ==
    /\ pc = "formats"
    /\ format_no <= Len(request.formats)
    /\ ~NeedsDoc
    /\ \E raised \in {r \in BOOLEAN : r => request.formats[format_no] \in KnownFormats} :
          IF raised
          THEN Raised /\ UNCHANGED format_no
          ELSE /\ format_no' = format_no + 1
               /\ UNCHANGED <<pc, file_no, outcome>>
    /\ UNCHANGED <<request, formatter_doc, local_doc, open_handles, used_closed>>
    /\ UnchangedExcept({"handles"})

\* the formats of the file are done: /batch-convert goes to its next file
\* (src/app.py:902), /extract-text answers (1095-1111), /upload removes the
\* uploaded file and sends output_path (1201-1214), which no branch has
\* bound when the format is not a recognized one
FormatsDone ==
    /\ pc = "formats"
    /\ format_no > Len(request.formats)
    /\ IF request.endpoint = "batch_convert"
       THEN /\ pc' = "file"
            /\ file_no' = file_no + 1
            /\ UNCHANGED outcome
       ELSE /\ pc' = "responded"
            /\ outcome' = IF \A j \in 1 .. Len(request.formats) :
                                 request.formats[j] \in KnownFormats
                          THEN "200" ELSE "500"
            /\ UNCHANGED file_no
    /\ UNCHANGED <<request, formatter_doc, local_doc, open_handles, used_closed,
                   format_no>>
    /\ UnchangedExcept({"handles"})

\* src/app.py:981-1048: the files are done and /batch-convert answers; the
\* status depends on converted_files (SpecBatch) and is left open here
BatchAnswer ==
    /\ pc = "file"
    /\ request.endpoint = "batch_convert"
    /\ file_no > request.files
    /\ pc' = "responded"
    /\ outcome' \in {"200", "400", "500"}
    /\ UNCHANGED <<request, formatter_doc, local_doc, open_handles, used_closed,
                   file_no, format_no>>
    /\ UnchangedExcept({"handles"})

\* src/api/convert.py:27
HandlerOpen ==
    /\ pc = "file"
    /\ request.endpoint = "handler"
    /\ local_doc' = "open"
    /\ open_handles' = open_handles + 1
    /\ pc' = "doc"
    /\ UNCHANGED <<request, formatter_doc, used_closed, file_no, format_no, outcome>>
    /\ UnchangedExcept({"handles"})

\* src/api/convert.py:29-90: txt and html read the pages and close the
\* document after the loop (35, 76), another format closes it at once
\* (86); an exception raised by a page goes to 89-90, which closes nothing
HandlerRead ==
    /\ pc = "doc"
    /\ request.endpoint = "handler"
    /\ used_closed' = (used_closed \/ local_doc # "open")
    /\ \E raised \in {r \in BOOLEAN : r => request.formats[1] \in {"txt", "html"}} :
          IF raised
          THEN /\ outcome' = "500"
               /\ UNCHANGED <<local_doc, open_handles>>
          ELSE /\ local_doc' = "closed"
               /\ open_handles' = open_handles - 1
               /\ outcome' = IF request.formats[1] \in {"txt", "html"}
                             THEN "200" ELSE "400"
    /\ pc' = "responded"
    /\ UNCHANGED <<request, formatter_doc, file_no, format_no>>
    /\ UnchangedExcept({"handles"})

NextHandles ==
    \/ OpenFormatter
    \/ ExtractWithFormatting
    \/ SkipExtract
    \/ OpenDoc
    \/ ReadDoc
    \/ Convert
    \/ FormatsDone
    \/ BatchAnswer
    \/ HandlerOpen
    \/ HandlerRead

SpecHandles == InitHandles /\ [][NextHandles]_vars

(***************************************************************************)
(* C1: _calculate_heading_level returns the level of the first matching    *)
(* tier.  Stated by the disjoint size ranges the ordered test amounts to:  *)
(* 0 up to 10pt; 1 from 20pt; 2 in [18,20); 3 in [16,18); 4 in [14,16)     *)
(* and, when bold, in [12,14); 5 when bold in (10,12) from 11pt; 6 when    *)
(* not bold in [13,14); 0 otherwise.  A bold 13pt span is level 4.         *)
(***************************************************************************)
TierLevel(sz, bold) ==
    CASE sz <= 10 * Scale -> 0
      [] sz >= 20 * Scale -> 1
      [] 18 * Scale <= sz /\ sz < 20 * Scale -> 2
      [] 16 * Scale <= sz /\ sz < 18 * Scale -> 3
      [] 14 * Scale <= sz /\ sz < 16 * Scale -> 4
      [] bold /\ 12 * Scale <= sz /\ sz < 14 * Scale -> 4
      [] bold /\ 11 * Scale <= sz /\ sz < 12 * Scale -> 5
      [] ~bold /\ 13 * Scale <= sz /\ sz < 14 * Scale -> 6
      [] OTHER -> 0

C1_HeadingTiers ==
    pc = "return" =>
        /\ heading_level = TierLevel(size, is_bold)
        /\ heading_level \in 0 .. 6
        /\ (size <= 10 * Scale => heading_level = 0)
        /\ (is_bold /\ size = 13 * Scale => heading_level = 4)

C1_Witness ==
    pc = "return" /\ is_bold /\ size = 13 * Scale /\ heading_level = 4

(***************************************************************************)
(* C10: _bbox_overlap(a, b) is true iff neither box lies strictly to the   *)
(* left of, right of, above or below the other, i.e. iff the closed x      *)
(* ranges and the closed y ranges both intersect; it is symmetric; boxes   *)
(* sharing only an edge or a corner overlap; (0,0,10,10) and (5,5,15,15)   *)
(* overlap and (0,0,10,10) and (11,0,20,10) do not.                        *)
(***************************************************************************)
RangesMeet(lo1, hi1, lo2, hi2) == Max(lo1, lo2) <= Min(hi1, hi2)

C10_OverlapTest ==
    pc = "return" =>
        /\ is_overlap = (/\ RangesMeet(bbox1[1], bbox1[3], bbox2[1], bbox2[3])
                         /\ RangesMeet(bbox1[2], bbox1[4], bbox2[2], bbox2[4]))
        /\ is_overlap = _bbox_overlap(bbox2, bbox1)
        /\ (bbox1 = <<0, 0, 10, 10>> /\ bbox2 = <<5, 5, 15, 15>> => is_overlap)
        /\ (bbox1 = <<0, 0, 10, 10>> /\ bbox2 = <<11, 0, 20, 10>> => ~is_overlap)
        /\ (bbox1 = <<0, 0, 10, 10>> /\ bbox2 = <<10, 10, 20, 20>> => is_overlap)

C10_Witness ==
    /\ pc = "return"
    /\ bbox1 = <<0, 0, 10, 10>>
    /\ bbox2 = <<10, 0, 20, 10>>
    /\ is_overlap

(***************************************************************************)
(* C9: with the container being the block bbox when supplied and the page  *)
(* (left edge 0, width page_width) otherwise, leftMargin = lineLeft -      *)
(* containerLeft and rightMargin = containerRight - lineRight, the result  *)
(* is center if |leftMargin - rightMargin| < 10% of the container width,   *)
(* else right if rightMargin < 5% and leftMargin > 30% of the width, else  *)
(* left; a line with both margins 0 in a 200-wide container is centered.   *)
(***************************************************************************)
ContainerLeft == IF block_bbox = NoBBox THEN 0 ELSE block_bbox[1]
ContainerRight == IF block_bbox = NoBBox THEN page_width ELSE block_bbox[3]
LeftMargin == line_bbox[1] - ContainerLeft
RightMargin == ContainerRight - line_bbox[3]
ContainerWidth == ContainerRight - ContainerLeft

C9_Alignment ==
    pc = "return" =>
        /\ line_alignment \in {"left", "center", "right"}
        /\ (line_alignment = "center") =
               (10 * Abs(LeftMargin - RightMargin) < ContainerWidth)
        /\ (line_alignment = "right") =
               (/\ ~(10 * Abs(LeftMargin - RightMargin) < ContainerWidth)
                /\ 20 * RightMargin < ContainerWidth
                /\ 10 * LeftMargin > 3 * ContainerWidth)
        /\ (LeftMargin = 0 /\ RightMargin = 0 /\ ContainerWidth = 200
               => line_alignment = "center")

C9_Witness ==
    /\ pc = "return"
    /\ block_bbox # NoBBox
    /\ LeftMargin = 0 /\ RightMargin = 0 /\ ContainerWidth = 200
    /\ line_alignment = "center"

(***************************************************************************)
(* C8: _is_list_item is true iff the text starts with a bullet glyph       *)
(* followed by a space or tab, or matches ^\d+[.)]\s, ^[A-Za-z][.)]\s or    *)
(* ^[ivxlcdmIVXLCDM]+\.\s; and then _get_list_type is the type of the      *)
(* first of bullet, numbered, lettered, roman that matches.                *)
(***************************************************************************)
BulletGlyphs == {bullet_patterns[i] : i \in 1 .. Len(bullet_patterns)}

IsBulletText(t) == Len(t) >= 2 /\ t[1] \in BulletGlyphs /\ t[2] \in {" ", "\t"}
IsNumberedText(t) == ReMatchMarker(Digit, TRUE, {".", ")"}, t)
IsLetteredText(t) == ReMatchMarker(Letter, FALSE, {".", ")"}, t)
IsRomanText(t) == ReMatchMarker(RomanLower \cup RomanUpper, TRUE, {"."}, t)

C8_ListDetection ==
    pc \in {"classified", "rendered"} =>
        /\ is_list_item = (\/ IsBulletText(text) \/ IsNumberedText(text)
                           \/ IsLetteredText(text) \/ IsRomanText(text))
        /\ is_list_item =>
               list_type = (IF IsBulletText(text) THEN "bullet"
                            ELSE IF IsNumberedText(text) THEN "numbered"
                            ELSE IF IsLetteredText(text) THEN "lettered"
                            ELSE "roman")

(***************************************************************************)
(* C7: marker stripping removes exactly the marker: for a list-item text   *)
(* made of a marker (bullet glyph, or word characters ending in '.' or     *)
(* ')'), whitespace and a body, the text each renderer emits for the item  *)
(* is the body unchanged.                                                  *)
(***************************************************************************)
BodyOf(t) ==
    LET m == IF t[1] \in BulletGlyphs THEN 1 ELSE PrefixLen(t, WordChar) + 1
        rest == DropFirst(t, m)
    IN  DropFirst(rest, PrefixLen(rest, Whitespace))

C7_StripOnlyMarker ==
    pc = "rendered" =>
        /\ item.html = <<"<li>">> \o BodyOf(text) \o <<"</li>">>
        /\ item.markdown =
               (IF list_type = "numbered" THEN <<"1. ">> ELSE <<"- ">>) \o BodyOf(text)
        /\ item.docx[1].text = BodyOf(text)

(***************************************************************************)
(* Reading the emitted HTML lines back: which lines are container tags,    *)
(* and which container, if any, is open before line k.                     *)
(***************************************************************************)
IsOpenTag(l) == l \in {<<"<ul>">>, <<"<ol>">>}
IsCloseTag(l) == l \in {<<"</ul>">>, <<"</ol>">>}
IsItem(l) == l # <<>> /\ l[1] = "<li>" /\ l[Len(l)] = "</li>"
IsParagraph(l) == l # <<>> /\ l[1] = "<p>"
ClosingOf(l) == IF l = <<"<ul>">> THEN <<"</ul>">> ELSE <<"</ol>">>

\* index of the container tag that is open just before line k, 0 if none
OpenBefore(lines, k) ==
    LET tags == {j \in 1 .. (k - 1) : IsOpenTag(lines[j]) \/ IsCloseTag(lines[j])}
    IN  IF tags = {} THEN 0
        ELSE LET j == CHOOSE m \in tags : \A n \in tags : n <= m
             IN  IF IsOpenTag(lines[j]) THEN j ELSE 0

(***************************************************************************)
(* C4: a list item whose type equals the type of the open container is     *)
(* emitted into it; an item of another type closes the open container and  *)
(* opens one of its own type before the item; an item met with no          *)
(* container open opens one.  A Bullet, Numbered, Bullet block emits       *)
(* ul, ol, ul, each opened and closed around exactly one item.             *)
(***************************************************************************)
C4_ItemStep ==
    (pc = "loop" /\ line_no <= Len(block_content)
        /\ block_content[line_no][1].is_list) =>
        LET lt == block_content[line_no][1].list_type
            added == SubSeq(html_lines', Len(html_lines) + 1, Len(html_lines'))
        IN  /\ SubSeq(html_lines', 1, Len(html_lines)) = html_lines
            /\ IF OpenBefore(html_lines, Len(html_lines) + 1) # 0
                   /\ lt = current_list_type
               THEN Len(added) = 1 /\ IsItem(added[1])
               ELSE IF OpenBefore(html_lines, Len(html_lines) + 1) # 0
               THEN /\ Len(added) = 3
                    /\ added[1] =
                         ClosingOf(html_lines[OpenBefore(html_lines, Len(html_lines) + 1)])
                    /\ added[2] = OpenTag(lt)
                    /\ IsItem(added[3])
               ELSE /\ Len(added) = 2
                    /\ added[1] = OpenTag(lt)
                    /\ IsItem(added[2])

LineTypes == [i \in 1 .. Len(block_content) |-> block_content[i][1].list_type]

C4_BulletNumberedBullet ==
    (pc = "return" /\ LineTypes = <<"bullet", "numbered", "bullet">>) =>
        /\ Len(html_lines) = 9
        /\ html_lines[1] = <<"<ul>">> /\ IsItem(html_lines[2]) /\ html_lines[3] = <<"</ul>">>
        /\ html_lines[4] = <<"<ol>">> /\ IsItem(html_lines[5]) /\ html_lines[6] = <<"</ol>">>
        /\ html_lines[7] = <<"<ul>">> /\ IsItem(html_lines[8]) /\ html_lines[9] = <<"</ul>">>

C4_ListTypeChange == []C4_BulletNumberedBullet /\ [][C4_ItemStep]_vars

C4_Witness ==
    /\ pc = "return"
    /\ LineTypes = <<"bullet", "numbered", "bullet">>
    /\ html_lines[4] = <<"<ol>">>
    /\ html_lines[9] = <<"</ul>">>

(***************************************************************************)
(* C5: no <p> element is emitted while a list container is open, and a     *)
(* list item never directly follows a <p> (it opens a fresh container).    *)
(***************************************************************************)
C5_ParagraphClosesList ==
    \A k \in 1 .. Len(html_lines) :
        /\ IsParagraph(html_lines[k]) => OpenBefore(html_lines, k) = 0
        /\ (IsItem(html_lines[k]) /\ k > 1) => ~IsParagraph(html_lines[k - 1])

(***************************************************************************)
(* C6: at most one list container is open at any point of the output, each *)
(* closing tag closes the open container with the tag matching its opening *)
(* tag, every item lies inside a container, and at the end of the block no *)
(* container is left open.                                                 *)
(***************************************************************************)
C6_ListContainers ==
    /\ \A k \in 1 .. Len(html_lines) :
          /\ IsOpenTag(html_lines[k]) => OpenBefore(html_lines, k) = 0
          /\ IsCloseTag(html_lines[k]) =>
                /\ OpenBefore(html_lines, k) # 0
                /\ html_lines[k] = ClosingOf(html_lines[OpenBefore(html_lines, k)])
          /\ IsItem(html_lines[k]) => OpenBefore(html_lines, k) # 0
    /\ pc = "return" => OpenBefore(html_lines, Len(html_lines) + 1) = 0

C6_Witness ==
    /\ pc = "return"
    /\ \E i, j \in 1 .. Len(html_lines) :
          /\ i < j
          /\ html_lines[i] = <<"<ol>">>
          /\ html_lines[j] = <<"</ul>">>
          /\ j = Len(html_lines)
    /\ \E k \in 1 .. Len(html_lines) : IsParagraph(html_lines[k])

(***************************************************************************)
(* Reading the block stream back by page: the blocks page p appended are   *)
(* those at the indices PageRange(p).                                      *)
(***************************************************************************)
PageRange(p) == ((IF p = 1 THEN 0 ELSE page_end[p - 1]) + 1) .. page_end[p]
BoxesMeet(a, b) == RangesMeet(a[1], a[3], b[1], b[3]) /\ RangesMeet(a[2], a[4], b[2], b[4])
IsTable(b) == b.type = "table"

\* the stripped texts of the raw block's spans
RawTexts(rb) ==
    UNION {{Strip(rb.lines[i].spans[j].text) : j \in 1 .. Len(rb.lines[i].spans)} :
              i \in 1 .. Len(rb.lines)} \ {<<>>}
BlockTexts(b) ==
    UNION {{b.content[i][j].text : j \in 1 .. Len(b.content[i])} :
              i \in 1 .. Len(b.content)}

(***************************************************************************)
(* C2: in the block stream no Text block's bbox overlaps the bbox of a     *)
(* Table block of the same page, and a raw block of the page read last     *)
(* that overlaps one of that page's Table blocks has no Text block and     *)
(* none of its text in the stream; the same holds of formatted_content     *)
(* once extract_with_formatting has returned.                              *)
(***************************************************************************)
C2_NoTextOverTable ==
    /\ \A p \in 1 .. Len(page_end) : \A i, j \in PageRange(p) :
          (~IsTable(all_blocks[i]) /\ IsTable(all_blocks[j])) =>
              ~BoxesMeet(all_blocks[i].bbox, all_blocks[j].bbox)
    /\ page_num >= 1 =>
          \A r \in 1 .. Len(page.blocks) :
              (\E j \in PageRange(page_num) :
                  /\ IsTable(all_blocks[j])
                  /\ BoxesMeet(page.blocks[r].bbox, all_blocks[j].bbox)) =>
              \A i \in PageRange(page_num) :
                  ~IsTable(all_blocks[i]) =>
                      /\ all_blocks[i].bbox # page.blocks[r].bbox
                      /\ BlockTexts(all_blocks[i]) \cap RawTexts(page.blocks[r]) = {}
    /\ pc = "extracted" => formatted_content = all_blocks

C2_Witness ==
    /\ pc = "extracted"
    /\ layout_mode = "preserve"
    /\ page_num = 2
    /\ page.blocks = RawBlocks
    /\ page.error.in = "none"
    /\ Len(page.found) = 2
    /\ page_end[2] - page_end[1] = 3
    /\ ~IsTable(formatted_content[page_end[1] + 1])
    /\ IsTable(formatted_content[page_end[2]])

(***************************************************************************)
(* C3: a page on which table detection raised (in find_tables or in the    *)
(* extract of any of its tables) has no Table block in the stream and      *)
(* every one of its raw text blocks with non-blank text has its Text       *)
(* block; and extraction goes on to read all pages.                        *)
(***************************************************************************)
HasText(rb) == rb.has_lines /\ RawTexts(rb) # {}

C3_DetectionErrorMeansNoTables ==
    /\ (layout_mode = "preserve" /\ page_num >= 1 /\ page.error.in # "none") =>
          /\ \A j \in PageRange(page_num) : ~IsTable(all_blocks[j])
          /\ \A r \in 1 .. Len(page.blocks) :
                HasText(page.blocks[r]) =>
                    \E i \in PageRange(page_num) :
                        /\ ~IsTable(all_blocks[i])
                        /\ all_blocks[i].bbox = page.blocks[r].bbox
    /\ pc = "extracted" => page_num = num_pages

(***************************************************************************)
(* C11: every Text block of the stream has kind heading iff the first span *)
(* of its first line has heading level > 0, kind list iff it is not a      *)
(* heading and the first span of some line is a list item, and kind        *)
(* paragraph otherwise; and every heading element a renderer emits (an     *)
(* <hN> line, a line of N '#', a DOCX heading of level N) has N in 1..6.   *)
(***************************************************************************)
KindOf(b) ==
    IF b.content[1][1].heading > 0 THEN "heading"
    ELSE IF \E k \in 1 .. Len(b.content) : b.content[k][1].is_list THEN "list"
    ELSE "paragraph"

KindsRight(stream) ==
    \A i \in 1 .. Len(stream) :
        ~IsTable(stream[i]) =>
            /\ stream[i].content # <<>>
            /\ \A k \in 1 .. Len(stream[i].content) : stream[i].content[k] # <<>>
            /\ stream[i].type = KindOf(stream[i])

IsHtmlHeading(l) == l # <<>> /\ l[1] = "<h"
IsMarkdownHeading(l) == l # <<>> /\ l[1] = "#"

C11_BlockKinds ==
    /\ KindsRight(all_blocks)
    /\ KindsRight(formatted_content)
    /\ \A k \in 1 .. Len(html_content) :
          IsHtmlHeading(html_content[k]) =>
              html_content[k][2] \in {"1", "2", "3", "4", "5", "6"}
    /\ \A k \in 1 .. Len(markdown_content) :
          IsMarkdownHeading(markdown_content[k]) =>
              PrefixLen(markdown_content[k], {"#"}) \in 1 .. 6
    /\ \A k \in 1 .. Len(document) :
          document[k].kind = "heading" => document[k].level \in 1 .. 6

C11_Witness ==
    /\ pc = "to_docx"
    /\ \E i \in 1 .. Len(formatted_content) :
          /\ formatted_content[i].type = "heading"
          /\ formatted_content[i].content[1][1].is_list
    /\ \E i \in 1 .. Len(formatted_content) : formatted_content[i].type = "list"
    /\ \E i \in 1 .. Len(formatted_content) : formatted_content[i].type = "paragraph"
    /\ \E k \in 1 .. Len(document) :
          document[k].kind = "heading" /\ document[k].level = 3

(***************************************************************************)
(* C12: reading a page appends to the stream, after everything earlier     *)
(* pages appended, the page's Text blocks in the order of the extractor's  *)
(* blocks and then the page's tables in the order they were detected; and  *)
(* each pass of a renderer's loop appends, after everything emitted so     *)
(* far, the elements of the next block of the stream and of no other, so   *)
(* that the output lists the blocks' elements in stream order.             *)
(***************************************************************************)
Appended(old, new) == SubSeq(new, Len(old) + 1, Len(new))
KeepsPrefix(old, new) == Len(new) >= Len(old) /\ SubSeq(new, 1, Len(old)) = old
BBoxes(blocks) == [i \in 1 .. Len(blocks) |-> blocks[i].bbox]

C12_ExtractStep ==
    (pc = "pages" /\ page_num' = page_num + 1) =>
        LET added == Appended(all_blocks, all_blocks')
            texts == SelectSeq(added, LAMBDA b : ~IsTable(b))
            tables == SelectSeq(added, IsTable)
            kept == SelectSeq(page'.blocks,
                        LAMBDA rb : \E i \in 1 .. Len(texts) : texts[i].bbox = rb.bbox)
        IN  /\ KeepsPrefix(all_blocks, all_blocks')
            /\ added = texts \o tables
            /\ BBoxes(texts) = BBoxes(kept)
            /\ Len(tables) <= Len(page'.found)
            /\ \A i \in 1 .. Len(tables) :
                  /\ tables[i].bbox = page'.found[i].bbox
                  /\ tables[i].data = page'.found[i].data

C12_RenderStep ==
    /\ (pc = "to_html" /\ pc' = "to_html") =>
          /\ block_no' = block_no + 1
          /\ KeepsPrefix(html_content, html_content')
          /\ Appended(html_content, html_content') = HtmlBlock(formatted_content[block_no])
    /\ (pc = "to_markdown" /\ pc' = "to_markdown") =>
          /\ block_no' = block_no + 1
          /\ KeepsPrefix(markdown_content, markdown_content')
          /\ Appended(markdown_content, markdown_content')
                = MarkdownBlock(formatted_content[block_no])
    /\ (pc = "to_docx" /\ pc' = "to_docx") =>
          /\ block_no' = block_no + 1
          /\ KeepsPrefix(document, document')
          /\ Appended(document, document') = DocxBlock(formatted_content[block_no])
    /\ (pc = "extracted" /\ pc' \in {"to_html", "to_markdown", "to_docx"}) =>
          block_no' = 1
    /\ (pc = "to_html" /\ pc' = "extracted") =>
          /\ block_no = Len(formatted_content) + 1
          /\ rendered'.html = <<Join(<<"\n">>, html_content \o HtmlFoot)>>
    /\ (pc = "to_markdown" /\ pc' = "extracted") =>
          /\ block_no = Len(formatted_content) + 1
          /\ rendered'.markdown =
                <<Join(<<"\n", "\n">>,
                       SelectSeq(markdown_content, LAMBDA it : Strip(it) # <<>>))>>
    /\ (pc = "to_docx" /\ pc' = "extracted") =>
          /\ block_no = Len(formatted_content) + 1
          /\ rendered'.docx = <<document>>

C12_StreamOrder == [][C12_ExtractStep /\ C12_RenderStep]_vars

C12_Witness ==
    /\ pc = "to_docx"
    /\ Len(page_end) = 2
    /\ page_end[1] >= 2
    /\ IsTable(formatted_content[page_end[1]])
    /\ ~IsTable(formatted_content[page_end[1] - 1])
    /\ page_end[2] > page_end[1]
    /\ ~IsTable(formatted_content[page_end[1] + 1])
    /\ IsTable(formatted_content[page_end[2]])
    /\ block_no = Len(formatted_content) + 1
    /\ document[page_end[1]].kind = "table"
    /\ document[page_end[1] + 1].kind # "table"

(***************************************************************************)
(* C13: for every list-item line, each of the three renderers emits the    *)
(* first span's text with its marker removed followed by the trailing      *)
(* spans, every one of these spans carrying its own bold/italic: in HTML   *)
(* as <strong>/<em>, in Markdown as the star marks, in DOCX as the run's   *)
(* bold and italic.                                                        *)
(***************************************************************************)
\* the spans of a list-item line, the first one without its marker
ItemSpans(line) ==
    <<[line[1] EXCEPT !.text = StripMarker(line[1].text)]>> \o Tail(line)

ItemLines(bc) == SelectSeq(bc, LAMBDA line : line[1].is_list)

ExpectedHtmlItem(line) ==
    <<"<li>">>
    \o JoinWithSpace([j \in 1 .. Len(line) |-> HtmlEmphasis(ItemSpans(line)[j])])
    \o <<"</li>">>

ExpectedMarkdownItem(line) ==
    (IF line[1].list_type = "numbered" THEN <<"1. ">> ELSE <<"- ">>)
    \o JoinWithSpace([j \in 1 .. Len(line) |-> MarkdownEmphasis(ItemSpans(line)[j])])

RunsCarryFormatting(runs, line) ==
    /\ Len(runs) = Len(line)
    /\ \A j \in 1 .. Len(line) :
          /\ runs[j].text = (IF j = 1 THEN <<>> ELSE <<" ">>) \o ItemSpans(line)[j].text
          /\ runs[j].bold = line[j].bold
          /\ runs[j].italic = line[j].italic

C13_ItemStep ==
    (pc \in {"to_html", "to_markdown", "to_docx"}
        /\ block_no <= Len(formatted_content)
        /\ formatted_content[block_no].type = "list") =>
        LET items == ItemLines(formatted_content[block_no].content)
            html_items == SelectSeq(Appended(html_content, html_content'), IsItem)
            markdown_items ==
                SelectSeq(Appended(markdown_content, markdown_content'),
                          LAMBDA l : l[1] \in {"- ", "1. "})
            docx_items ==
                SelectSeq(Appended(document, document'),
                          LAMBDA e : e.style = "List Bullet")
        IN  /\ pc = "to_html" =>
                  html_items = [k \in 1 .. Len(items) |-> ExpectedHtmlItem(items[k])]
            /\ pc = "to_markdown" =>
                  markdown_items = [k \in 1 .. Len(items) |-> ExpectedMarkdownItem(items[k])]
            /\ pc = "to_docx" =>
                  /\ Len(docx_items) = Len(items)
                  /\ \A k \in 1 .. Len(items) :
                        RunsCarryFormatting(docx_items[k].runs, items[k])

C13_ListItemFormatting == [][C13_ItemStep]_vars

(***************************************************************************)
(* C14: in the paragraph path of each renderer and in the serverless       *)
(* handler every span is emitted in one of four forms, bold+italic when    *)
(* both of its flags are set, else bold, else italic, else plain, and the  *)
(* form is decided by the span's own flags alone: the output is the        *)
(* concatenation, span by span, of each span's text in its own form.       *)
(***************************************************************************)
RawBold(raw) == raw.flags \in {16, 18}
RawItalic(raw) == raw.flags \in {2, 18}

Form(raw) ==
    CASE RawBold(raw) /\ RawItalic(raw) -> "bold+italic"
      [] RawBold(raw) /\ ~RawItalic(raw) -> "bold"
      [] ~RawBold(raw) /\ RawItalic(raw) -> "italic"
      [] OTHER -> "plain"

HtmlForm(raw) ==
    CASE Form(raw) = "bold+italic" -> <<"<strong><em>">> \o raw.text \o <<"</em></strong>">>
      [] Form(raw) = "bold" -> <<"<strong>">> \o raw.text \o <<"</strong>">>
      [] Form(raw) = "italic" -> <<"<em>">> \o raw.text \o <<"</em>">>
      [] OTHER -> raw.text

MarkdownForm(raw) ==
    CASE Form(raw) = "bold+italic" -> <<"***">> \o raw.text \o <<"***">>
      [] Form(raw) = "bold" -> <<"**">> \o raw.text \o <<"**">>
      [] Form(raw) = "italic" -> <<"*">> \o raw.text \o <<"*">>
      [] OTHER -> raw.text

\* all spans of the block, line after line
RawSpans(rb) == Concat([k \in 1 .. Len(rb.lines) |-> rb.lines[k].spans])

LineForms(line, F(_)) == JoinWithSpace([j \in 1 .. Len(line.spans) |-> F(line.spans[j])])

C14_EmphasisForms ==
    /\ emitted.html # <<>> =>
          emitted.html[1] =
              << <<"<p", ">">>
                 \o Concat([k \in 1 .. Len(raw_block.lines) |->
                        LineForms(raw_block.lines[k], HtmlForm) \o <<" ">>
                        \o (IF Len(raw_block.lines) > 1 THEN <<"<br>">> ELSE <<>>)])
                 \o <<"</p>">> >>
    /\ emitted.markdown # <<>> =>
          emitted.markdown[1] =
              <<JoinWithSpace([k \in 1 .. Len(raw_block.lines) |->
                                  LineForms(raw_block.lines[k], MarkdownForm)])>>
    /\ emitted.docx # <<>> =>
          /\ Len(emitted.docx[1]) = 1
          /\ LET runs == emitted.docx[1][1].runs
             IN  /\ Len(runs) = Len(RawSpans(raw_block))
                 /\ \A j \in 1 .. Len(runs) :
                       /\ runs[j].bold = RawBold(RawSpans(raw_block)[j])
                       /\ runs[j].italic = RawItalic(RawSpans(raw_block)[j])
                       /\ runs[j].text = RawSpans(raw_block)[j].text \o <<" ">>
    /\ emitted.serverless # <<>> =>
          \* between the 7 lines of the document head and the 2 closing lines
          SubSeq(emitted.serverless[1], 14, Len(emitted.serverless[1]) - 4) =
              Concat([k \in 1 .. Len(raw_block.lines) |->
                         <<"\n", "<p>">> \o LineForms(raw_block.lines[k], HtmlForm)
                         \o <<"</p>">>])

C14_Witness ==
    /\ emitted.html # <<>>
    /\ emitted.markdown # <<>>
    /\ emitted.docx # <<>>
    /\ emitted.serverless # <<>>
    /\ Len(raw_block.lines) = 2
    /\ Len(raw_block.lines[1].spans) = 2
    /\ raw_block.lines[1].spans[1].flags = 18
    /\ raw_block.lines[1].spans[2].flags = 16
    /\ \E k \in 1 .. Len(emitted.html[1][1]) : emitted.html[1][1][k] = "<strong><em>"
    /\ \E k \in 1 .. Len(emitted.markdown[1][1]) : emitted.markdown[1][1][k] = "***"

(***************************************************************************)
(* C15: to_markdown emits for a heading block one item holding the heading *)
(* '#' * level, a space and the space-joined text of the lines; for a      *)
(* left-aligned heading the item is that heading and nothing else, for a   *)
(* centered or right-aligned one the heading stands inside an alignment    *)
(* container; in every case the heading text occurs once in the item.      *)
(***************************************************************************)
Occurrences(sub, seq) ==
    Cardinality({k \in 1 .. (Len(seq) - Len(sub) + 1) :
                    SubSeq(seq, k, k + Len(sub) - 1) = sub})

\* seq is inner with something before it and something after it
Wraps(seq, inner) ==
    \E k \in 2 .. (Len(seq) - Len(inner)) : SubSeq(seq, k, k + Len(inner) - 1) = inner

C15_HeadingStep ==
    (pc = "to_markdown"
        /\ block_no <= Len(formatted_content)
        /\ formatted_content[block_no].type = "heading") =>
        LET bc == formatted_content[block_no].content
            added == Appended(markdown_content, markdown_content')
            text_content == HeadingText(bc)
            heading == Hashes(bc[1][1].heading) \o <<" ">> \o text_content
        IN  /\ Len(added) = 1
            /\ IF bc[1][1].alignment = "left"
               THEN added[1] = heading
               ELSE Wraps(added[1], heading)
            /\ Occurrences(text_content, added[1]) = 1

C15_MarkdownHeading == [][C15_HeadingStep]_vars

(***************************************************************************)
(* C16: in each renderer the first row of a table is a header row (<th>    *)
(* cells, a line followed by the separator line, bold cells) iff it holds  *)
(* at least one non-empty string cell, and is otherwise rendered as a      *)
(* plain data row like the others; all other rows are plain data cells;    *)
(* a None cell is rendered as blank.  [["Name","Age"],["Ann","30"]] has    *)
(* Name and Age as header cells and Ann and 30 as data cells.              *)
(***************************************************************************)
HasHeaderRow(data) ==
    \E j \in 1 .. Len(data[1]) : data[1][j] # <<>> /\ data[1][j][1] # <<>>

CellText(c) == IF c = <<>> THEN <<>> ELSE c[1]
RowTexts(row) == [j \in 1 .. Len(row) |-> CellText(row[j])]
RowsTexts(rows) == Concat([r \in 1 .. Len(rows) |-> RowTexts(rows[r])])

Positions(seq, tok) ==
    SelectSeq([k \in 1 .. Len(seq) |-> k], LAMBDA k : seq[k] = tok)

\* the texts standing between each opening token and its closing token
Cells(out, open, close) ==
    [n \in 1 .. Len(Positions(out, open)) |->
        SubSeq(out, Positions(out, open)[n] + 1, Positions(out, close)[n] - 1)]

RECURSIVE SplitLines(_)
SplitLines(seq) ==
    IF Positions(seq, "\n") = <<>> THEN <<seq>>
    ELSE <<SubSeq(seq, 1, Positions(seq, "\n")[1] - 1)>>
         \o SplitLines(SubSeq(seq, Positions(seq, "\n")[1] + 1, Len(seq)))

IsSeparator(l) ==
    Len(l) >= 2 /\ l[1] = "|" /\ \A k \in 2 .. Len(l) : l[k] = "---|"

NameAge ==
    << << <<(<<"N", "a", "m", "e">>)>>, <<(<<"A", "g", "e">>)>> >>,
       << <<(<<"A", "n", "n">>)>>, <<(<<"3", "0">>)>> >> >>

C16_TableStep ==
    (pc \in {"to_html", "to_markdown", "to_docx"}
        /\ block_no <= Len(formatted_content)
        /\ formatted_content[block_no].type = "table") =>
        LET data == formatted_content[block_no].data
            header == HasHeaderRow(data)
            html == Appended(html_content, html_content')[1]
            markdown == SplitLines(Appended(markdown_content, markdown_content')[1])
            docx == Appended(document, document')[1]
        IN  /\ pc = "to_html" =>
                  /\ Cells(html, "<th>", "</th>") =
                        (IF header THEN RowTexts(data[1]) ELSE <<>>)
                  /\ Cells(html, "<td>", "</td>") =
                        RowsTexts(IF header THEN Tail(data) ELSE data)
                  /\ data = NameAge =>
                        /\ Cells(html, "<th>", "</th>")
                              = << <<"N", "a", "m", "e">>, <<"A", "g", "e">> >>
                        /\ Cells(html, "<td>", "</td>")
                              = << <<"A", "n", "n">>, <<"3", "0">> >>
            /\ pc = "to_markdown" =>
                  /\ IF header
                     THEN /\ Len(markdown) = Len(data) + 1
                          /\ IsSeparator(markdown[2])
                          /\ \A k \in 1 .. Len(markdown) : k # 2 => ~IsSeparator(markdown[k])
                     ELSE /\ Len(markdown) = Len(data)
                          /\ \A k \in 1 .. Len(markdown) : ~IsSeparator(markdown[k])
            /\ pc = "to_docx" =>
                  /\ Len(docx.rows) = Len(data)
                  /\ \A r \in 1 .. Len(data) :
                        /\ Len(docx.rows[r]) = Len(data[r])
                        /\ \A j \in 1 .. Len(data[r]) :
                              /\ docx.rows[r][j].text = CellText(data[r][j])
                              /\ docx.rows[r][j].bold = (header /\ r = 1)

C16_TableHeader == [][C16_TableStep]_vars

(***************************************************************************)
(* C17: in clean mode to_html, to_markdown and to_docx each emit exactly   *)
(* one paragraph (one run) whose text is the single-space join, in block   *)
(* order, of the space-joined span texts of every non-empty line of every  *)
(* non-table block; no heading, list, emphasis, alignment or table markup  *)
(* is emitted and the three outputs carry the same text.  The heading      *)
(* 'Title' followed by the paragraph 'Hello world.' gives exactly          *)
(* 'Title Hello world.'.                                                   *)
(***************************************************************************)
SpansJoined(line) ==
    Join(<<" ">>, [j \in 1 .. Len(line) |-> line[j].text])

BlockLines(block) ==
    IF block.type = "table" THEN <<>>
    ELSE SelectSeq([k \in 1 .. Len(block.content) |-> SpansJoined(block.content[k])],
                   LAMBDA l : l # <<>>)

CleanText(fc) ==
    Join(<<" ">>, Concat([i \in 1 .. Len(fc) |-> BlockLines(fc[i])]))

StructureMarkup ==
    {"<h", "</h", "<p", "<br>", "<ul>", "</ul>", "<li>", "</li>", "<strong>",
     "</strong>", "<em>", "</em>", "<strong><em>", "</em></strong>", "<table>",
     "</table>", "<thead><tr>", "<tbody>", "<tr>", "<th>", "<td>",
     " style=\"text-align: center;\"", " style=\"text-align: right;\""}

TitleHelloStream ==
    /\ Len(formatted_content) = 2
    /\ formatted_content[1].type = "heading"
    /\ Len(formatted_content[1].content) = 1
    /\ SpansJoined(formatted_content[1].content[1]) = <<"T", "i", "t", "l", "e">>
    /\ formatted_content[2].type = "paragraph"
    /\ Len(formatted_content[2].content) = 1
    /\ SpansJoined(formatted_content[2].content[1])
          = <<"H", "e", "l", "l", "o", " ", "w", "o", "r", "l", "d", ".">>

TitleHelloWorld ==
    <<"T", "i", "t", "l", "e", " ",
      "H", "e", "l", "l", "o", " ", "w", "o", "r", "l", "d", ".">>

C17_CleanMode ==
    layout_mode = "clean" =>
        LET t == CleanText(formatted_content)
        IN  /\ rendered.html # <<>> =>
                  /\ Cells(rendered.html[1], "<p>", "</p>") = <<t>>
                  /\ \A k \in 1 .. Len(rendered.html[1]) :
                        rendered.html[1][k] \notin StructureMarkup
                  /\ TitleHelloStream =>
                        Cells(rendered.html[1], "<p>", "</p>") = <<TitleHelloWorld>>
            /\ rendered.markdown # <<>> =>
                  /\ rendered.markdown[1] = t
                  /\ TitleHelloStream => rendered.markdown[1] = TitleHelloWorld
            /\ rendered.docx # <<>> =>
                  /\ Len(rendered.docx[1]) = 1
                  /\ rendered.docx[1][1].kind = "paragraph"
                  /\ rendered.docx[1][1].style = "Normal"
                  /\ rendered.docx[1][1].alignment = "None"
                  /\ Len(rendered.docx[1][1].runs) <= 1
                  /\ Concat([k \in 1 .. Len(rendered.docx[1][1].runs) |->
                                rendered.docx[1][1].runs[k].text]) = t
                  /\ \A k \in 1 .. Len(rendered.docx[1][1].runs) :
                        /\ ~rendered.docx[1][1].runs[k].bold
                        /\ ~rendered.docx[1][1].runs[k].italic
                  /\ TitleHelloStream =>
                        rendered.docx[1][1].runs[1].text = TitleHelloWorld

\* to_markdown and to_docx have both returned in clean mode over the stream
\* of the heading 'Title' and the paragraph 'Hello world.'
C17_Witness ==
    /\ layout_mode = "clean"
    /\ TitleHelloStream
    /\ rendered.markdown = <<TitleHelloWorld>>
    /\ rendered.docx # <<>>
    /\ rendered.docx[1][1].runs[1].text = TitleHelloWorld

(***************************************************************************)
(* C18: in preserve mode, for the stream of one left-aligned heading block *)
(* of level L and text T followed by one left-aligned paragraph block of   *)
(* one plain line P, to_html emits an <hL> element whose text is exactly T *)
(* followed by a <p> element whose text is exactly P, and to_markdown      *)
(* returns '#' * L, a space and T, a blank line, then P.  A 22 pt bold     *)
(* 'Title' and 'Hello world.' give <h1>Title</h1>, <p>Hello world.</p>     *)
(* and '# Title', blank line, 'Hello world.'.                              *)
(***************************************************************************)
HeadingThenParagraph ==
    /\ layout_mode = "preserve"
    /\ Len(formatted_content) = 2
    /\ formatted_content[1].type = "heading"
    /\ formatted_content[1].content[1][1].alignment = "left"
    /\ formatted_content[2].type = "paragraph"
    /\ Len(formatted_content[2].content) = 1
    /\ formatted_content[2].content[1][1].alignment = "left"
    /\ \A j \in 1 .. Len(formatted_content[2].content[1]) :
          /\ ~formatted_content[2].content[1][j].bold
          /\ ~formatted_content[2].content[1][j].italic

HeadingT ==
    Join(<<" ">>, [k \in 1 .. Len(formatted_content[1].content) |->
                      SpansJoined(formatted_content[1].content[k])])

ParagraphP == SpansJoined(formatted_content[2].content[1])

HeadingL == formatted_content[1].content[1][1].heading

ExpectedHtmlBody ==
    <<"\n", "<h", LevelDigit(HeadingL), ">">> \o HeadingT
        \o <<"</h", LevelDigit(HeadingL), ">", "\n", "<p", ">">> \o ParagraphP
        \o <<"</p>", "\n">>

ExpectedMarkdown ==
    Hashes(HeadingL) \o <<" ">> \o HeadingT \o <<"\n", "\n">> \o ParagraphP

C18_HtmlPart ==
    (HeadingThenParagraph /\ rendered.html # <<>>) =>
        /\ Cells(rendered.html[1], "<body>", "</body>") = <<ExpectedHtmlBody>>
        /\ TitleHelloStream =>
              Cells(rendered.html[1], "<body>", "</body>") =
                 << <<"\n", "<h", "1", ">", "T", "i", "t", "l", "e", "</h", "1", ">",
                      "\n", "<p", ">", "H", "e", "l", "l", "o", " ", "w", "o", "r",
                      "l", "d", ".", "</p>", "\n">> >>

C18_MarkdownPart ==
    (HeadingThenParagraph /\ rendered.markdown # <<>>) =>
        /\ rendered.markdown[1] = ExpectedMarkdown
        /\ TitleHelloStream =>
              rendered.markdown[1] =
                 <<"#", " ", "T", "i", "t", "l", "e", "\n", "\n",
                   "H", "e", "l", "l", "o", " ", "w", "o", "r", "l", "d", ".">>

C18_HeadingThenParagraph == C18_HtmlPart /\ C18_MarkdownPart

(***************************************************************************)
(* C20: to_html, to_markdown and to_docx never modify formatted_content    *)
(* (any block, line or span of it) or any other state of the formatter,    *)
(* so what each returns is a function of the block stream and the layout   *)
(* mode alone: a second call of the same renderer returns what the first   *)
(* returned, and a call made after another renderer returns what it        *)
(* returns when called alone.                                              *)
(***************************************************************************)
\* what each renderer returns when it is the only call made on the stream
HtmlAlone(fc, mode) ==
    IF mode = "clean" THEN _to_html_clean(fc)
    ELSE Join(<<"\n">>,
              HtmlHead \o Concat([i \in 1 .. Len(fc) |-> HtmlBlock(fc[i])]) \o HtmlFoot)

MarkdownAlone(fc, mode) ==
    IF mode = "clean" THEN _to_markdown_clean(fc)
    ELSE MarkdownJoin(Concat([i \in 1 .. Len(fc) |-> MarkdownBlock(fc[i])]))

DocxAlone(fc, mode) ==
    IF mode = "clean" THEN _to_docx_clean(fc)
    ELSE Concat([i \in 1 .. Len(fc) |-> DocxBlock(fc[i])])

C20_RenderStep ==
    pc # "pages" =>
        /\ formatted_content' = formatted_content
        /\ layout_mode' = layout_mode
        /\ UNCHANGED <<num_pages, page_num, page, all_blocks, page_end, doc_open>>
        /\ rendered'.html # rendered.html =>
              /\ rendered.html = <<>>
              /\ rendered'.html = <<HtmlAlone(formatted_content, layout_mode)>>
        /\ rendered'.markdown # rendered.markdown =>
              /\ rendered.markdown = <<>>
              /\ rendered'.markdown = <<MarkdownAlone(formatted_content, layout_mode)>>
        /\ rendered'.docx # rendered.docx =>
              /\ rendered.docx = <<>>
              /\ rendered'.docx = <<DocxAlone(formatted_content, layout_mode)>>

C20_RenderersArePure == [][C20_RenderStep]_vars

\* to_markdown and then to_html have returned over a stream that holds a
\* list block, in preserve mode
C20_Witness ==
    /\ layout_mode = "preserve"
    /\ pc = "extracted"
    /\ calls = 2
    /\ rendered.markdown # <<>>
    /\ rendered.html # <<>>
    /\ \E i \in 1 .. Len(formatted_content) : formatted_content[i].type = "list"

(***************************************************************************)
(* C19: in /batch-convert, when the conversion of one (document, format)   *)
(* pair raises, only that pair is missing from the result: every other     *)
(* requested format of the same document, those after the failing one      *)
(* included, and every other document is converted and is in the returned  *)
(* ZIP.                                                                    *)
(***************************************************************************)
\* the request passed the limit check and names only formats the endpoint
\* converts
BatchConverted ==
    /\ pc = "responded"
    /\ response # "429"
    /\ \A j \in 1 .. Len(formats) : formats[j] \in KnownFormats

InZip(format_type, name) ==
    \E k \in 1 .. Len(zip_names) : zip_names[k] = <<format_type, name>>

\* the pairs of a named document whose extraction did not raise and whose
\* own conversion did not raise
SoundPairs ==
    {p \in (1 .. Len(pdf_files)) \X (1 .. Len(formats)) :
        /\ pdf_files[p[1]] # ""
        /\ <<p[1], 0>> \notin failed
        /\ p \notin failed}

C19_BatchIsolation ==
    BatchConverted =>
        \A p \in SoundPairs :
            response = "200" /\ InZip(formats[p[2]], pdf_files[p[1]])

(***************************************************************************)
(* C21: get_export_status, and with it /status, reads the export count     *)
(* without incrementing: it changes no count, date or last_export of an    *)
(* entry of export_tracking and creates no entry, whatever the user key    *)
(* and the current date.                                                   *)
(***************************************************************************)
\* thread t receives a request of one of the handlers in this step
Receives(t, handlers) ==
    /\ threads[t].pc = "idle"
    /\ threads'[t].pc # "idle"
    /\ threads'[t].handler \in handlers

C21_StatusStep ==
    \A t \in Threads :
        Receives(t, {"status", "batch"}) => export_tracking' = export_tracking

C21_StatusReadsOnly == [][C21_StatusStep]_vars

\* /status has been answered for a key that has no entry, on a later day
\* than the day the entries of the other keys were stored
C21_Witness ==
    \E t \in Threads :
        /\ threads[t].pc = "responded"
        /\ threads[t].handler = "status"
        /\ ~export_tracking[threads[t].user_key].present
        /\ Today(now) > 0
        /\ \E k \in Keys : export_tracking[k].present

(***************************************************************************)
(* C22: in every reachable state, after any sequence and interleaving of   *)
(* concurrent /login, /logout, /status, /upload and /batch-convert         *)
(* requests and day changes, every entry of export_tracking has            *)
(* 0 <= count <= the daily limit of its key (10 for guest_ keys, 30 for    *)
(* user_ keys).                                                            *)
(***************************************************************************)
LimitOfKey(k) ==
    IF k[1] = "guest" THEN GUEST_DAILY_LIMIT ELSE LOGGED_IN_DAILY_LIMIT

C22_CountWithinLimit ==
    \A k \in Keys :
        export_tracking[k].present =>
            /\ 0 <= export_tracking[k].count
            /\ export_tracking[k].count <= LimitOfKey(k)

(***************************************************************************)
(* C23: the number of files converted and delivered to one user key within *)
(* one day (each allowed /upload one, each file converted by               *)
(* /batch-convert one) never exceeds the daily limit of the key, after any *)
(* sequence or interleaving of the user's requests.                        *)
(***************************************************************************)
C23_DeliveredWithinLimit ==
    \A k \in Keys : \A d \in Days : delivered[k][d] <= LimitOfKey(k)

(***************************************************************************)
(* C24: a request /upload or /batch-convert rejects for the export limit   *)
(* (429) saves and converts no file and leaves the count and last_export   *)
(* of the user as they were before the request; and a request is rejected  *)
(* for the limit only if granting it would take the user's exports of the  *)
(* day above the limit.                                                    *)
(***************************************************************************)
\* the exports of the key that count for the day of the instant
ExportsOfDay(k, instant) ==
    IF export_tracking[k].present /\ export_tracking[k].date = Today(instant)
    THEN export_tracking[k].count
    ELSE 0

C24_RejectStep ==
    \A t \in Threads :
        (Receives(t, {"upload", "batch"}) /\ threads'[t].response = "429") =>
            /\ \A k \in Keys :
                  /\ export_tracking'[k].present = export_tracking[k].present
                  /\ export_tracking'[k].count = export_tracking[k].count
                  /\ export_tracking'[k].last_export = export_tracking[k].last_export
            /\ threads'[t].pc = "responded"
            /\ threads'[t].saved = 0
            /\ threads'[t].converted = 0
            /\ delivered' = delivered
            /\ ExportsOfDay(threads'[t].user_key, now) + threads'[t].file_count
                  > LimitOfKey(threads'[t].user_key)

C24_RejectionLeavesCount == [][C24_RejectStep]_vars

\* a batch of two files has been rejected with one export left, at an
\* instant after the one the entry was last written at
C24_Witness ==
    \E t \in Threads :
        /\ threads[t].pc = "responded"
        /\ threads[t].handler = "batch"
        /\ threads[t].response = "429"
        /\ threads[t].file_count = 2
        /\ export_tracking[threads[t].user_key].count
              = LimitOfKey(threads[t].user_key) - 1
        /\ export_tracking[threads[t].user_key].last_export < now

(***************************************************************************)
(* C25: day rollover.  When the stored date of a user is before the        *)
(* current date, get_export_status reports 0 for the user, and the next    *)
(* check_and_update_exports resets the count to 0 before it compares with  *)
(* the limit, so the call is allowed and leaves count = 1 and date =       *)
(* today; within one day the count never decreases.                        *)
(***************************************************************************)
Stale(k) == export_tracking[k].present /\ export_tracking[k].date < Today(now)

C25_RolloverStep ==
    /\ \A t \in Threads :
          LET k == threads'[t].user_key
          IN  /\ (Receives(t, {"status", "batch"}) /\ Stale(k)) =>
                    threads'[t].current_exports = 0
              /\ ((Receives(t, {"upload"})
                      \/ (threads[t].pc = "batch_update" /\ threads[t].todo > 0
                             /\ threads'[t] # threads[t]))
                    /\ Stale(k)) =>
                    /\ export_tracking'[k].count = 0
                    /\ export_tracking'[k].date = Today(now)
                    /\ threads'[t].pc \in {"upload_increment", "batch_increment"}
              /\ (threads[t].pc \in {"upload_increment", "batch_increment"}
                    /\ threads'[t] # threads[t]
                    /\ export_tracking[k].count = 0) =>
                    /\ export_tracking'[k].count = 1
                    /\ export_tracking'[k].date = export_tracking[k].date
    /\ \A k \in Keys :
          (export_tracking[k].present /\ export_tracking'[k].date = export_tracking[k].date)
              => export_tracking'[k].count >= export_tracking[k].count

MissingEntries ==
    {k \in 1 .. Len(converted_files) : converted_files[k] \notin written}

\* the ZIP was built although a format of the request is not recognized
UnknownFormatTolerated ==
    (/\ pc = "responded"
     /\ converted_files # <<>>
     /\ \E j \in 1 .. Len(formats) : formats[j] \notin KnownFormats)
        => response = "200"

C26_EntriesWritten ==
    /\ MissingEntries = {}
    /\ \A k \in 1 .. Len(converted_files) : converted_files[k][1] \in KnownFormats
    /\ UnknownFormatTolerated

(***************************************************************************)
(* C27: every PDF document opened while a request is served (by            *)
(* PDFFormatter.__init__ or by fitz.open in a handler) is closed before    *)
(* the request completes, on every path: for every export format and       *)
(* layout mode (txt in clean mode included, where extract_with_formatting  *)
(* is never called) and on the error paths; and no document is used after  *)
(* it has been closed.                                                     *)
(***************************************************************************)
C27_HandlesClosed ==
    /\ pc = "responded" => open_handles = 0
    /\ ~used_closed

=============================================================================
